---- MODULE Spec2Model ----
(***************************************************************************)
(* A model of the real-time core of the polyphonic fix15 synthesizer:     *)
(*   - Fix15.h                   16.15 fixed-point arithmetic             *)
(*   - SmoothedValue.h           Fix15SmoothedValue, SmoothedValue<u32>   *)
(*   - Fix15VCAEnvelopeModule.h  the ADSR envelope with StealFade         *)
(*   - SimpleFixedOscModule.h    the voice bank and its allocation policy *)
(*   - MidiSerialListener.h      the producer side of the inter-core FIFO *)
(*   - Parameter.h               the parameter store (binary32 values)    *)
(*   - AudioEngine.h             the module chain of one block            *)
(*   - I2sAudioOutput.h, PwmAudioOutput.h  the double-buffered drivers    *)
(*   - FilterModule.h            the four-pole ladder filter              *)
(*   - GainModule.h              the master volume                        *)
(*   - Fix15Oscillators.h        the phase accumulator and the saw        *)
(*                                                                         *)
(* Each subsystem has its own specification (SpecSmooth, SpecEnv,         *)
(* SpecVoice, SpecSteal, SpecFifo, ...) over its own group of variables;  *)
(* the variables of the other groups stay at their initial values.        *)
(***************************************************************************)
EXTENDS Integers, Sequences, FiniteSets, TLC

VARIABLES
    sm,        \* SpecSmooth: one Fix15SmoothedValue
    smh,       \* SpecSmooth: history (last setTargetValue argument, calls since)
    sv,        \* SpecSmoothOps: one SmoothedValue<uint32_t>
    hs,        \* SpecHandshake: the two cores' positions in setTargetValue/getNextValue
    env,       \* SpecEnv: one Fix15VCAEnvelopeModule
    envh,      \* SpecEnv: history (last note event, calls since, previous level)
    voices,    \* SpecVoice/SpecSteal: SimpleFixedOscModule::voices
    vh,        \* SpecVoice/SpecSteal: history (last events, voices before the last event)
    fifo,      \* SpecFifo: the inter-core hardware FIFO (control core -> audio core)
    cons,      \* SpecFifo: the audio core's position in updateControlSignals
    pushed,    \* SpecFifo: history, every packet pushed, in push order
    popped,    \* SpecFifo: history, every packet popped, in pop order
    params,    \* SpecMidi: g_synth_parameters (the value of every Parameter)
    lis,       \* SpecMidi, SpecLine: the MidiSerialListener (the line under assembly)
    upd,       \* SpecMidi, SpecLine: the last update() call, its input and its effects
    engine,    \* SpecEngine: the AudioEngine (its module list)
    blk,       \* SpecEngine: the last processNextBlock() call and what it did
    out,       \* SpecI2s, SpecPwm: the output driver, its two DMA buffers and channels
    outh,      \* SpecI2s, SpecPwm: history (blocks produced, blocks played)
    filt,      \* SpecFilter: the ladder filter's four stages
    gain,      \* SpecGain: the GainModule's parameter and the block it wrote
    gainh,     \* SpecGain: history (the gains applied to the last two blocks)
    wire,      \* SpecWire: one sample on its way from the engine to the I2S word
    osc        \* SpecPhase: one Fix15Phase and the last value next() returned

vars == <<sm, smh, sv, hs, env, envh, voices, vh, fifo, cons, pushed, popped, params, lis, upd,
          engine, blk, out, outh, filt, gain, gainh, wire, osc>>

smVars    == <<sm, smh, sv, hs>>
envVars   == <<env, envh>>
voiceVars == <<voices, vh>>
fifoVars  == <<fifo, cons, pushed, popped, params, lis, upd>>
dspVars   == <<wire, osc>>
ioVars    == <<engine, blk, out, outh, filt, gain, gainh, dspVars>>

(***************************************************************************)
(* Fix15.h                                                                 *)
(***************************************************************************)
FIX15_ZERO == 0
FIX15_ONE == 32768

\* C integer division truncates toward zero (TLA+ \div rounds down).
TruncDiv(a, b) ==
    IF (a >= 0) = (b > 0)
        THEN (IF a >= 0 THEN a ELSE -a) \div (IF b > 0 THEN b ELSE -b)
        ELSE -((IF a >= 0 THEN a ELSE -a) \div (IF b > 0 THEN b ELSE -b))

\* #define int2fix15(a) ((fix15)((a) << 15))
int2fix15(a) == a * 32768

\* #define multfix15(a,b) ((fix15)(((signed long long)(a) * (signed long long)(b)) >> 15))
\* >> on a signed value is an arithmetic shift: it rounds down, as \div does.
\* The 64-bit product is formed from 15-bit pieces, each within TLC's integers:
\* with a = ah * 2^15 + al and b = bh * 2^15 + bl (0 <= al, bl < 2^15),
\* (a * b) \div 2^15 = ah * bh * 2^15 + ah * bl + al * bh + (al * bl) \div 2^15.
multfix15(a, b) ==
    LET ah == a \div 32768
        al == a % 32768
        bh == b \div 32768
        bl == b % 32768
    IN  ah * bh * 32768 + ah * bl + al * bh + (al * bl) \div 32768

\* #define divfix15(a,b) ((fix15)(((signed long long)(a) << 15) / (b)))
divfix15(a, b) == TruncDiv(a * 32768, b)

(***************************************************************************)
(* SmoothedValue.h: class Fix15SmoothedValue                               *)
(***************************************************************************)
\* Fix15SmoothedValue() followed by reset(numSamples) and setValue(value).
Fix15SmoothedValue(rampSamples, value) ==
    [ currentValue     |-> value,
      targetValue      |-> value,
      step             |-> FIX15_ZERO,
      remainingSamples |-> 0,
      rampSamples      |-> rampSamples,
      pendingTarget    |-> FIX15_ZERO,
      hasNewTarget     |-> FALSE ]

\* void setTargetValue(fix15 newValue): only the handshake words are written.
Fix15SetTargetValue(s, newValue) ==
    [s EXCEPT !.pendingTarget = newValue, !.hasNewTarget = TRUE]

\* The first half of getNextValue(): pick up a pending target and start a ramp.
Fix15PickUpTarget(s) ==
    IF s.hasNewTarget
        THEN IF s.rampSamples > 0
                THEN [s EXCEPT !.hasNewTarget = FALSE,
                               !.targetValue = s.pendingTarget,
                               !.remainingSamples = s.rampSamples,
                               !.step = divfix15(s.pendingTarget - s.currentValue,
                                                 int2fix15(s.rampSamples))]
                ELSE [s EXCEPT !.hasNewTarget = FALSE,
                               !.targetValue = s.pendingTarget,
                               !.remainingSamples = s.rampSamples,
                               !.currentValue = s.pendingTarget,
                               !.step = FIX15_ZERO]
        ELSE s

\* getNextValue() from the clearing of hasNewTarget on, with the value it read
\* from pendingTarget in its local newTarget: acknowledge and start a ramp.
Fix15StartRamp(s, newTarget) ==
    IF s.rampSamples > 0
        THEN [s EXCEPT !.hasNewTarget = FALSE,
                       !.targetValue = newTarget,
                       !.remainingSamples = s.rampSamples,
                       !.step = divfix15(newTarget - s.currentValue,
                                         int2fix15(s.rampSamples))]
        ELSE [s EXCEPT !.hasNewTarget = FALSE,
                       !.targetValue = newTarget,
                       !.remainingSamples = s.rampSamples,
                       !.currentValue = newTarget,
                       !.step = FIX15_ZERO]

\* The memory accesses of setTargetValue() in program order, with the write
\* of the flag and the write of the value exchanged.
SetTargetValueFlagFirst == <<"hasNewTarget", "dmb", "pendingTarget">>

\* The memory accesses of setTargetValue() in program order: both words are
\* volatile and __dmb() lies between them, so that the other core sees them
\* in this order.
SetTargetValueSteps == <<"pendingTarget", "dmb", "hasNewTarget">>

\* A ramp step that forgets to land on the target on the final sample.
Fix15AdvanceNoClamp(s) ==
    IF s.remainingSamples > 0
        THEN [s EXCEPT !.currentValue = s.currentValue + s.step,
                       !.remainingSamples = s.remainingSamples - 1]
        ELSE s

\* The second half of getNextValue(): one ramp step, landing on the target at the end.
Fix15Advance(s) ==
    IF s.remainingSamples > 0
        THEN [s EXCEPT !.currentValue = IF s.remainingSamples = 1
                                            THEN s.targetValue
                                            ELSE s.currentValue + s.step,
                       !.remainingSamples = s.remainingSamples - 1]
        ELSE s

\* fix15 getNextValue(): the smoother after the call; the value returned is its currentValue.
Fix15GetNextValue(s) == Fix15Advance(Fix15PickUpTarget(s))

\* void reset(int numSamples)
Fix15Reset(s, numSamples) == [s EXCEPT !.rampSamples = numSamples]

\* void setValue(fix15 value)
Fix15SetValue(s, value) ==
    [s EXCEPT !.currentValue = value,
              !.targetValue = value,
              !.remainingSamples = 0,
              !.step = FIX15_ZERO]

(***************************************************************************)
(* SmoothedValue.h: template class SmoothedValue<uint32_t>                 *)
(***************************************************************************)
\* uint32_t arithmetic.  A uint32_t is kept as the int32_t with the same 32
\* bits (u for u < 2^31, u - 2^32 otherwise), so that every intermediate stays
\* within 32-bit integers.
INT32_MAX == 2147483647
INT32_MIN == -INT32_MAX - 1

\* a + b modulo 2^32
U32Add(a, b) ==
    IF a >= 0 /\ b >= 0 /\ a > INT32_MAX - b
        THEN (a + INT32_MIN) + (b + INT32_MIN)
    ELSE IF a < 0 /\ b < 0 /\ a < INT32_MIN - b
        THEN (a - INT32_MIN) + (b - INT32_MIN)
    ELSE a + b

\* a - b modulo 2^32
U32Sub(a, b) == IF b = INT32_MIN THEN U32Add(a, INT32_MIN) ELSE U32Add(a, -b)

\* a < b and a >= b as unsigned numbers
U32Less(a, b) == IF (a >= 0) = (b >= 0) THEN a < b ELSE a >= 0
U32GreaterEq(a, b) == ~U32Less(a, b)

\* a / n, the unsigned division, for n > 0
U32Div(a, n) ==
    IF a >= 0 THEN a \div n
    ELSE IF n = 1 THEN a
    ELSE LET h == a - INT32_MIN     \* a = h + 2^31 as an unsigned number
         IN  (h \div n) + (INT32_MAX \div n) + (((h % n) + (INT32_MAX % n) + 1) \div n)

\* SmoothedValue<uint32_t>, after SmoothedValue(initialValue) and reset(rampSamples).
SmoothedValue(rampSamples, value) ==
    [ currentValue     |-> value,
      targetValue      |-> value,
      step             |-> 0,
      remainingSamples |-> 0,
      rampSamples      |-> rampSamples ]

\* void reset(int numSamples)
SmoothedReset(s, numSamples) == [s EXCEPT !.rampSamples = numSamples]

\* void setValue(FloatType value)
SmoothedSetValue(s, value) ==
    [s EXCEPT !.currentValue = value,
              !.targetValue = value,
              !.remainingSamples = 0,
              !.step = 0]

\* void setTargetValue(FloatType newValue)
SmoothedSetTargetValue(s, newValue) ==
    IF newValue = s.targetValue
        THEN s
        ELSE IF s.rampSamples > 0
                THEN [s EXCEPT !.targetValue = newValue,
                               !.remainingSamples = s.rampSamples,
                               !.step = U32Div(U32Sub(newValue, s.currentValue),
                                               s.rampSamples)]
                ELSE [s EXCEPT !.targetValue = newValue,
                               !.remainingSamples = s.rampSamples,
                               !.currentValue = newValue]

\* A getNextValue() without the clamp to the target on the final sample.
SmoothedGetNextValueNoClamp(s) ==
    IF s.remainingSamples > 0
        THEN [s EXCEPT !.currentValue = U32Add(s.currentValue, s.step),
                       !.remainingSamples = s.remainingSamples - 1]
        ELSE s

\* FloatType getNextValue(): the smoother after the call.
SmoothedGetNextValue(s) ==
    IF s.remainingSamples > 0
        THEN [s EXCEPT !.currentValue = IF s.remainingSamples = 1
                                            THEN s.targetValue
                                            ELSE U32Add(s.currentValue, s.step),
                       !.remainingSamples = s.remainingSamples - 1]
        ELSE s

(***************************************************************************)
(* float: IEEE-754 binary32 with round-to-nearest-even, as the parameters  *)
(* use it.  A float is [neg, m, e] with value (-1)^neg * m * 2^e and       *)
(* 2^23 <= m < 2^24, or m = 0 (and e = 0, neg = FALSE) for zero.  NaN,     *)
(* infinities, -0 and subnormal numbers are outside the model.             *)
(***************************************************************************)
F32Zero == [neg |-> FALSE, m |-> 0, e |-> 0]

\* The number of binary digits of n >= 0.
RECURSIVE BitLen(_)
BitLen(n) == IF n = 0 THEN 0 ELSE 1 + BitLen(n \div 2)

\* The float nearest to (-1)^neg * (M + s) * 2^E, where 0 <= M < 2^31 and s is
\* 0, or some s with 0 < s < 1 when sticky; ties go to the even mantissa.
F32Round(neg, M, E, sticky) ==
    LET len == BitLen(M)
        sh == len - 24
        q == M \div 2^sh
        r == M % 2^sh
        half == 2^(sh - 1)
        up == r > half \/ (r = half /\ (sticky \/ q % 2 = 1))
        mant == IF up THEN q + 1 ELSE q
    IN  IF M = 0 THEN F32Zero
        ELSE IF len <= 24 THEN [neg |-> neg, m |-> M * 2^(24 - len), e |-> E - (24 - len)]
        ELSE IF mant = 2^24 THEN [neg |-> neg, m |-> 2^23, e |-> E + sh + 1]
        ELSE [neg |-> neg, m |-> mant, e |-> E + sh]

\* static_cast<float>(n) for an int 0 <= n < 2^24 (exact)
F32FromInt(n) == F32Round(FALSE, n, 0, FALSE)

\* |a| < |b|
F32MagLess(a, b) ==
    IF a.m = 0 \/ b.m = 0 THEN b.m # 0
    ELSE a.e < b.e \/ (a.e = b.e /\ a.m < b.m)

\* a < b
F32Less(a, b) ==
    IF a.neg # b.neg THEN a.neg
    ELSE IF a.neg THEN F32MagLess(b, a)
    ELSE F32MagLess(a, b)

\* a <= b
F32LessEq(a, b) == ~F32Less(b, a)

\* -a
F32Neg(a) == IF a.m = 0 THEN a ELSE [a EXCEPT !.neg = ~a.neg]

\* a + b for |a| >= |b|, both non-zero: b is aligned to a with three extra
\* low bits and a sticky bit for what is shifted out.
F32AddAligned(a, b) ==
    LET d == a.e - b.e
        A == a.m * 8
        B == IF d >= 28 THEN 0 ELSE (b.m * 8) \div 2^d
        sticky == IF d >= 28 THEN TRUE ELSE (b.m * 8) % 2^d # 0
    IN  IF a.neg = b.neg
            THEN F32Round(a.neg, A + B, a.e - 3, sticky)
            ELSE F32Round(a.neg, IF sticky THEN A - B - 1 ELSE A - B, a.e - 3, sticky)

\* a + b
F32Add(a, b) ==
    IF a.m = 0 THEN b
    ELSE IF b.m = 0 THEN a
    ELSE IF F32MagLess(a, b) THEN F32AddAligned(b, a)
    ELSE F32AddAligned(a, b)

\* a - b
F32Sub(a, b) == F32Add(a, F32Neg(b))

\* a * b: the 48-bit product of the mantissas from 12-bit halves, kept as
\* hi * 2^24 + lo.
F32Mul(a, b) ==
    LET a1 == a.m \div 4096
        a0 == a.m % 4096
        b1 == b.m \div 4096
        b0 == b.m % 4096
        mid == a1 * b0 + a0 * b1
        low == a0 * b0 + (mid % 4096) * 4096
        lo == low % 16777216
        hi == a1 * b1 + mid \div 4096 + low \div 16777216
    IN  IF a.m = 0 \/ b.m = 0 THEN F32Zero
        ELSE F32Round(a.neg # b.neg, hi * 64 + lo \div 262144,
                      a.e + b.e + 18, lo % 262144 # 0)

\* n more quotient bits of r / d by long division, r < d: <<quotient, remainder>>
RECURSIVE F32LongDiv(_, _, _, _)
F32LongDiv(r, d, n, q) ==
    IF n = 0 THEN <<q, r>>
    ELSE IF 2 * r >= d THEN F32LongDiv(2 * r - d, d, n - 1, 2 * q + 1)
    ELSE F32LongDiv(2 * r, d, n - 1, 2 * q)

\* a / b for b # 0: 26 fraction bits of the quotient of the mantissas
F32Div(a, b) ==
    LET qr == F32LongDiv(a.m % b.m, b.m, 26, a.m \div b.m)
    IN  IF a.m = 0 THEN F32Zero
        ELSE F32Round(a.neg # b.neg, qr[1], a.e - b.e - 26, qr[2] # 0)

\* std::min(a, b) and std::max(a, b) as <algorithm> defines them
F32Min(a, b) == IF F32Less(b, a) THEN b ELSE a
F32Max(a, b) == IF F32Less(a, b) THEN b ELSE a

\* printf("%.3f", x) for 0 <= x < 2^7: the number of thousandths printed, the
\* exact value of x times 1000 rounded to the nearest integer, ties to even.
\* x * 1000 = (m * 125) / 2^(-e - 3), and m * 125 < 2^31.
F32Thousandths(x) ==
    LET N == x.m * 125
        k == -x.e - 3
        q == N \div 2^k
        r == N % 2^k
        half == 2^(k - 1)
    IN  IF x.m = 0 THEN 0
        ELSE IF k >= 32 THEN 0
        ELSE IF k = 31 THEN (IF N > 1073741824 THEN 1 ELSE 0)
        ELSE IF k <= 0 THEN N * 2^(-k)
        ELSE IF r > half \/ (r = half /\ q % 2 = 1) THEN q + 1
        ELSE q

\* A decimal literal n/d of the source (0.001f is F32Decimal(1, 1000)): the
\* float nearest to the quotient of two exactly representable integers.
F32Decimal(n, d) == F32Div(F32FromInt(n), F32FromInt(d))

F32One == F32FromInt(1)

\* The divisor of data2 / 127.0f, which takes a MIDI data byte to [0, 1].
CC_FULL_SCALE == 127

(***************************************************************************)
(* Parameter.h: class Parameter                                            *)
(***************************************************************************)
\* Parameter(id, name, minValue, maxValue, defaultValue, cc): the default is
\* stored and then pulled into [minValue, maxValue].
Parameter(id, name, minValue, maxValue, defaultValue, cc) ==
    [ parameterID |-> id,
      displayName |-> name,
      minimum     |-> minValue,
      maximum     |-> maxValue,
      ccNumber    |-> cc,
      value       |-> IF F32Less(defaultValue, minValue) THEN minValue
                      ELSE IF F32Less(maxValue, defaultValue) THEN maxValue
                      ELSE defaultValue ]

\* A setValue() that stores its argument as it is.
ParamSetValueUnclamped(p, newValue) == [p EXCEPT !.value = newValue]

\* void setValue(float newValue)
ParamSetValue(p, newValue) ==
    [p EXCEPT !.value = F32Max(p.minimum, F32Min(newValue, p.maximum))]

\* float getValue() const
ParamGetValue(p) == p.value

\* A getNormalizedValue() that forgets to subtract the minimum.
ParamGetNormalizedValueNoOffset(p) ==
    F32Div(ParamGetValue(p), F32Sub(p.maximum, p.minimum))

\* float getNormalizedValue() const
ParamGetNormalizedValue(p) ==
    F32Div(F32Sub(ParamGetValue(p), p.minimum), F32Sub(p.maximum, p.minimum))

\* norm = std::max(0.0f, std::min(norm, 1.0f));
ClampNorm(norm) == F32Max(F32Zero, F32Min(norm, F32One))

\* A setNormalizedValue() that stores the clamped norm itself.
ParamSetNormalizedValueUnscaled(p, norm) == ParamSetValue(p, ClampNorm(norm))

\* void setNormalizedValue(float norm): the parameter after the call.  The
\* call to showSynthParameter() that may follow draws on the screen only.
ParamSetNormalizedValue(p, norm) ==
    ParamSetValue(p, F32Add(p.minimum,
                            F32Mul(ClampNorm(norm), F32Sub(p.maximum, p.minimum))))

(***************************************************************************)
(* ParameterStore.h: g_synth_parameters after initialize_parameters()      *)
(***************************************************************************)
initialize_parameters ==
    << Parameter("attack", "Attack", F32Decimal(1, 1000), F32Decimal(25, 10), F32Decimal(1, 100), 74),
       Parameter("decay", "Decay", F32Decimal(3, 1000), F32Decimal(2, 1), F32Decimal(2, 10), 71),
       Parameter("sustain", "Sustain", F32Zero, F32One, F32Decimal(3, 10), 73),
       Parameter("release", "Release", F32Decimal(1, 100), F32Decimal(5, 1), F32Decimal(1, 10), 72),
       Parameter("sawLevel", "Saw Level", F32Zero, F32One, F32One, 79),
       Parameter("pulseLevel", "Pulse Level", F32Zero, F32One, F32Zero, 80),
       Parameter("subLevel", "Sub Level", F32Zero, F32One, F32Zero, 82),
       Parameter("noiseLevel", "Noise Level", F32Zero, F32One, F32Zero, 78),
       Parameter("pulseWidth", "Pulse Width", F32Decimal(5, 100), F32Decimal(95, 100), F32Decimal(5, 10), 81),
       Parameter("filterCutoff", "Cutoff", F32Zero, F32One, F32Decimal(5, 10), 76),
       Parameter("filterResonance", "Resonance", F32Zero, F32One, F32Decimal(2, 10), 77),
       Parameter("masterVol", "Master Volume", F32Zero, F32One, F32Decimal(5, 100), 75) >>

(***************************************************************************)
(* Fix15VCAEnvelopeModule.h                                                *)
(***************************************************************************)
\* enum class State { Idle, Attack, Decay, Sustain, Release, StealFade }
EnvStates == {"Idle", "Attack", "Decay", "Sustain", "Release", "StealFade"}

\* static_cast<int>(std::round(sampleRate * rampLengthInSeconds)), the ramp length
\* given in milliseconds.
RampSamplesFor(sampleRate, ms) == (sampleRate * ms + 500) \div 1000

\* stealFadeSamples = (uint32_t)(0.005f * sampleRate)
StealFadeSamplesFor(sampleRate) == (sampleRate * 5) \div 1000

\* The envelope built by Fix15VCAEnvelopeModule(sampleRate) whose parameters
\* have then been set to attack a, decay d, release r (in samples) and sustain
\* level s, with every smoother at rest on its target.
Fix15VCAEnvelopeModule(sampleRate, a, d, s, r) ==
    [ state               |-> "Idle",
      currentLevel        |-> FIX15_ZERO,
      sustainLevel        |-> s,
      s_sustainLevel      |-> Fix15SmoothedValue(RampSamplesFor(sampleRate, 10), s),
      s_attackSamples     |-> SmoothedValue(RampSamplesFor(sampleRate, 50), a),
      s_decaySamples      |-> SmoothedValue(RampSamplesFor(sampleRate, 50), d),
      s_releaseSamples    |-> SmoothedValue(RampSamplesFor(sampleRate, 50), r),
      sampleCounter       |-> 0,
      releaseStartLevel   |-> FIX15_ZERO,
      stealFadeSamples    |-> StealFadeSamplesFor(sampleRate),
      stealFadeStartLevel |-> FIX15_ZERO ]

\* A noteOn() that starts the attack at once, whatever the current level.
EnvNoteOnNoFade(e) ==
    [e EXCEPT !.state = "Attack", !.sampleCounter = 0]

\* void noteOn()
EnvNoteOn(e) ==
    IF e.currentLevel > FIX15_ZERO
        THEN [e EXCEPT !.state = "StealFade",
                       !.stealFadeStartLevel = e.currentLevel,
                       !.sampleCounter = 0]
        ELSE [e EXCEPT !.currentLevel = FIX15_ZERO,
                       !.state = "Attack",
                       !.sampleCounter = 0]

\* A noteOff() that releases from the sustain level.
EnvNoteOffFromSustainLevel(e) ==
    IF e.state # "Idle"
        THEN [e EXCEPT !.releaseStartLevel = e.sustainLevel,
                       !.state = "Release",
                       !.sampleCounter = 0]
        ELSE e

\* void noteOff()
EnvNoteOff(e) ==
    IF e.state # "Idle"
        THEN [e EXCEPT !.releaseStartLevel = e.currentLevel,
                       !.state = "Release",
                       !.sampleCounter = 0]
        ELSE e

\* attackSamples = (uint32_t)(std::max(0.001f, seconds) * sampleRate), and the
\* same for decay and release; the time is given in milliseconds.
TimeSamplesFor(sampleRate, ms) == ((IF ms < 1 THEN 1 ELSE ms) * sampleRate) \div 1000

\* void setAttackTime(float seconds), with the attackSamples it computes
EnvSetAttackTime(e, attackSamples) ==
    [e EXCEPT !.s_attackSamples = SmoothedSetTargetValue(e.s_attackSamples, attackSamples)]

\* void setDecayTime(float seconds), with the decaySamples it computes
EnvSetDecayTime(e, decaySamples) ==
    [e EXCEPT !.s_decaySamples = SmoothedSetTargetValue(e.s_decaySamples, decaySamples)]

\* void setSustainLevel(float level), with the newSustainLevel it computes
EnvSetSustainLevel(e, newSustainLevel) ==
    [e EXCEPT !.s_sustainLevel = Fix15SetTargetValue(e.s_sustainLevel, newSustainLevel)]

\* void setReleaseTime(float seconds), with the releaseSamples it computes
EnvSetReleaseTime(e, releaseSamples) ==
    [e EXCEPT !.s_releaseSamples = SmoothedSetTargetValue(e.s_releaseSamples, releaseSamples)]

\* bool isActive() const
EnvIsActive(e) == e.state # "Idle"

\* progress = sampleCounter >= samples ? FIX15_ONE
\*                                     : (fix15)((uint64_t)sampleCounter * 32768 / samples)
\* samples is a uint32_t (see U32Add); a count of 2^31 or more reaches here
\* only with sampleCounter < 2^16, where the quotient is 0.
Progress(sampleCounter, samples) ==
    IF U32GreaterEq(sampleCounter, samples) THEN FIX15_ONE
    ELSE IF samples < 0 THEN 0
    ELSE (sampleCounter * 32768) \div samples

\* A steal fade that hands over to Attack one sample late.
StepStealFadeLate(e) ==
    IF e.stealFadeSamples > 0
        THEN LET progress == Progress(e.sampleCounter, e.stealFadeSamples)
                 level    == multfix15(e.stealFadeStartLevel, FIX15_ONE - progress)
                 counter  == e.sampleCounter + 1
             IN  IF counter > e.stealFadeSamples
                    THEN [e EXCEPT !.currentLevel = FIX15_ZERO,
                                   !.state = "Attack",
                                   !.sampleCounter = 0]
                    ELSE [e EXCEPT !.currentLevel = level,
                                   !.sampleCounter = counter]
        ELSE [e EXCEPT !.currentLevel = FIX15_ZERO,
                       !.state = "Attack",
                       !.sampleCounter = 0]

\* case State::StealFade of getNextValue()
StepStealFade(e) ==
    IF e.stealFadeSamples > 0
        THEN LET progress == Progress(e.sampleCounter, e.stealFadeSamples)
                 level    == multfix15(e.stealFadeStartLevel, FIX15_ONE - progress)
                 counter  == e.sampleCounter + 1
             IN  IF counter >= e.stealFadeSamples
                    THEN [e EXCEPT !.currentLevel = FIX15_ZERO,
                                   !.state = "Attack",
                                   !.sampleCounter = 0]
                    ELSE [e EXCEPT !.currentLevel = level,
                                   !.sampleCounter = counter]
        ELSE [e EXCEPT !.currentLevel = FIX15_ZERO,
                       !.state = "Attack",
                       !.sampleCounter = 0]

\* case State::Attack of getNextValue()
StepAttack(e, samples) ==
    IF samples # 0
        THEN LET p0      == Progress(e.sampleCounter, samples)
                 over    == p0 > FIX15_ONE
                 c1      == IF over /\ e.currentLevel < FIX15_ONE
                                THEN (e.currentLevel * samples) \div 32768
                                ELSE e.sampleCounter
                 level   == IF over THEN e.currentLevel ELSE p0
                 counter == c1 + 1
             IN  IF U32GreaterEq(counter, samples)
                    THEN [e EXCEPT !.currentLevel = FIX15_ONE,
                                   !.state = "Decay",
                                   !.sampleCounter = 0]
                    ELSE [e EXCEPT !.currentLevel = level,
                                   !.sampleCounter = counter]
        ELSE [e EXCEPT !.currentLevel = FIX15_ONE,
                       !.state = "Decay",
                       !.sampleCounter = 0]

\* A decay that ends one sample late.
StepDecayLate(e, samples) ==
    IF e.sampleCounter >= samples
        THEN [e EXCEPT !.currentLevel = e.sustainLevel, !.state = "Sustain"]
        ELSE [e EXCEPT !.currentLevel =
                           FIX15_ONE - multfix15(Progress(e.sampleCounter, samples),
                                                 FIX15_ONE - e.sustainLevel),
                       !.sampleCounter = e.sampleCounter + 1]

\* A decay that takes the decayed amount off the sustain level.
StepDecayBelowSustain(e, samples) ==
    IF samples # 0
        THEN LET p0      == Progress(e.sampleCounter, samples)
                 range   == FIX15_ONE - e.sustainLevel
                 counter == e.sampleCounter + 1
             IN  IF U32GreaterEq(counter, samples)
                    THEN [e EXCEPT !.currentLevel = e.sustainLevel,
                                   !.state = "Sustain",
                                   !.sampleCounter = counter]
                    ELSE [e EXCEPT !.currentLevel = e.sustainLevel - multfix15(p0, range),
                                   !.sampleCounter = counter]
        ELSE [e EXCEPT !.currentLevel = e.sustainLevel,
                       !.state = "Sustain"]

\* case State::Decay of getNextValue(); the counter is not reset on entering Sustain.
StepDecay(e, samples) ==
    IF samples # 0
        THEN LET p0      == Progress(e.sampleCounter, samples)
                 over    == p0 > FIX15_ONE
                 range   == FIX15_ONE - e.sustainLevel
                 reverse == ((FIX15_ONE - e.currentLevel) * 32768) \div range
                 c1      == IF over /\ range > 0 /\ e.currentLevel > e.sustainLevel
                                    /\ e.currentLevel <= FIX15_ONE /\ reverse <= 32768
                                THEN (reverse * samples) \div 32768
                                ELSE e.sampleCounter
                 level   == IF over THEN e.currentLevel
                                    ELSE FIX15_ONE - multfix15(p0, range)
                 counter == c1 + 1
             IN  IF U32GreaterEq(counter, samples)
                    THEN [e EXCEPT !.currentLevel = e.sustainLevel,
                                   !.state = "Sustain",
                                   !.sampleCounter = counter]
                    ELSE [e EXCEPT !.currentLevel = level,
                                   !.sampleCounter = counter]
        ELSE [e EXCEPT !.currentLevel = e.sustainLevel,
                       !.state = "Sustain"]

\* case State::Sustain of getNextValue()
StepSustain(e) ==
    [e EXCEPT !.currentLevel = IF e.s_sustainLevel.targetValue = FIX15_ZERO
                                   THEN FIX15_ZERO
                                   ELSE e.sustainLevel]

\* A release that reaches Idle with the last level it computed.
StepReleaseKeepsLevel(e, samples) ==
    IF samples # 0
        THEN LET p0      == Progress(e.sampleCounter, samples)
                 level   == multfix15(e.releaseStartLevel, FIX15_ONE - p0)
                 counter == e.sampleCounter + 1
             IN  IF U32GreaterEq(counter, samples)
                    THEN [e EXCEPT !.currentLevel = level,
                                   !.state = "Idle",
                                   !.sampleCounter = 0]
                    ELSE [e EXCEPT !.currentLevel = level,
                                   !.sampleCounter = counter]
        ELSE [e EXCEPT !.state = "Idle", !.sampleCounter = 0]

\* case State::Release of getNextValue()
StepRelease(e, samples) ==
    IF samples # 0
        THEN LET p0      == Progress(e.sampleCounter, samples)
                 over    == p0 > FIX15_ONE
                 ratio   == (e.currentLevel * 32768) \div e.releaseStartLevel
                 c1      == IF over /\ e.releaseStartLevel > 0 /\ e.currentLevel >= 0
                                    /\ e.currentLevel <= e.releaseStartLevel
                                    /\ ratio <= 32768
                                THEN ((32768 - ratio) * samples) \div 32768
                                ELSE e.sampleCounter
                 level   == IF over THEN e.currentLevel
                                    ELSE multfix15(e.releaseStartLevel, FIX15_ONE - p0)
                 counter == c1 + 1
             IN  IF U32GreaterEq(counter, samples)
                    THEN [e EXCEPT !.currentLevel = FIX15_ZERO,
                                   !.state = "Idle",
                                   !.sampleCounter = 0]
                    ELSE [e EXCEPT !.currentLevel = level,
                                   !.sampleCounter = counter]
        ELSE [e EXCEPT !.currentLevel = FIX15_ZERO,
                       !.state = "Idle",
                       !.sampleCounter = 0]

\* fix15 getNextValue(): the envelope after the call; it returns currentLevel.
EnvGetNextValue(e) ==
    LET sus == Fix15GetNextValue(e.s_sustainLevel)
        atk == SmoothedGetNextValue(e.s_attackSamples)
        dec == SmoothedGetNextValue(e.s_decaySamples)
        rel == SmoothedGetNextValue(e.s_releaseSamples)
        e1  == [e EXCEPT !.sustainLevel     = sus.currentValue,
                         !.s_sustainLevel   = sus,
                         !.s_attackSamples  = atk,
                         !.s_decaySamples   = dec,
                         !.s_releaseSamples = rel]
    IN  CASE e.state = "StealFade" -> StepStealFade(e1)
          [] e.state = "Attack"    -> StepAttack(e1, atk.currentValue)
          [] e.state = "Decay"     -> StepDecay(e1, dec.currentValue)
          [] e.state = "Sustain"   -> StepSustain(e1)
          [] e.state = "Release"   -> StepRelease(e1, rel.currentValue)
          [] OTHER                 -> [e1 EXCEPT !.currentLevel = FIX15_ZERO]

(***************************************************************************)
(* SimpleFixedOscModule.h: struct Voice and the voice bank.  Of a voice    *)
(* the model keeps what note handling reads and writes: midiNote, isActive *)
(* and the envelope.  The oscillators, the filter and the velocity are     *)
(* written by noteOn() and never read by the allocation.                   *)
(***************************************************************************)
NUM_VOICES == 4

\* Voice(sample_rate), its envelope set as the module's constructor sets it.
Voice(sampleRate, a, d, s, r) ==
    [ midiNote |-> 0,
      isActive |-> FALSE,
      envelope |-> Fix15VCAEnvelopeModule(sampleRate, a, d, s, r) ]

\* SimpleFixedOscModule(sample_rate): NUM_VOICES voices.
SimpleFixedOscModule(sampleRate, a, d, s, r) ==
    [i \in 1..NUM_VOICES |-> Voice(sampleRate, a, d, s, r)]

\* void Voice::noteOn(uint8_t note, fix15 vel, float sample_rate)
VoiceNoteOn(v, note) ==
    [v EXCEPT !.midiNote = note,
              !.isActive = TRUE,
              !.envelope = EnvNoteOn(v.envelope)]

\* A noteOff that releases the envelope but leaves the key marked as pressed.
VoiceNoteOffKeyHeld(v) ==
    IF ~v.isActive
        THEN v
        ELSE [v EXCEPT !.envelope = EnvNoteOff(v.envelope)]

\* A noteOff that marks the key as released but leaves the envelope alone.
VoiceNoteOffFlagOnly(v) ==
    IF ~v.isActive
        THEN v
        ELSE [v EXCEPT !.isActive = FALSE]

\* void Voice::noteOff()
VoiceNoteOff(v) ==
    IF ~v.isActive
        THEN v
        ELSE [v EXCEPT !.isActive = FALSE,
                       !.envelope = EnvNoteOff(v.envelope)]

\* A retrigger test that overlooks a voice which is released but still sounding.
VoiceHoldsNoteActiveOnly(v, note) ==
    v.midiNote = note /\ v.isActive

\* handleNoteOn, step 1: voice.midiNote == note && (voice.isActive || voice.envelope.isActive())
VoiceHoldsNote(v, note) ==
    v.midiNote = note /\ (v.isActive \/ EnvIsActive(v.envelope))

\* The lowest of the voice indices in S (0 when S is empty): the voice a
\* "for (auto& voice : voices) if (...) { ...; return; }" loop stops at.
FirstVoice(S) ==
    IF S # {} THEN CHOOSE i \in S : \A j \in S : i <= j ELSE 0

\* handleNoteOn, step 4: the scan for the voice to steal.  Both operands of
\* the comparison call getNextValue(), which advances the two envelopes.
RECURSIVE OldestVoiceScan(_, _, _)
OldestVoiceScan(vs, i, oldest) ==
    IF i > Len(vs)
        THEN [voices |-> vs, oldest |-> oldest]
        ELSE IF vs[i].envelope.state = "Sustain" /\ vs[oldest].envelope.state = "Sustain"
                THEN LET ei == EnvGetNextValue(vs[i].envelope)
                         eo == EnvGetNextValue(vs[oldest].envelope)
                         vs1 == [vs EXCEPT ![i].envelope = ei, ![oldest].envelope = eo]
                     IN  OldestVoiceScan(vs1, i + 1,
                                         IF ei.currentLevel < eo.currentLevel
                                             THEN i ELSE oldest)
                ELSE OldestVoiceScan(vs, i + 1, oldest)

\* The indices of the voices that step 1, step 2 and step 3 of handleNoteOn test for.
HeldVoices(vs, note) == {i \in DOMAIN vs : VoiceHoldsNote(vs[i], note)}
IdleVoices(vs)       == {i \in DOMAIN vs : ~EnvIsActive(vs[i].envelope)}
ReleaseVoices(vs)    == {i \in DOMAIN vs : vs[i].envelope.state = "Release"}

\* An allocation that looks for a releasing voice before an idle one.
NoteOnRuleReleaseFirst(vs, note) ==
    IF HeldVoices(vs, note) # {} THEN 1
    ELSE IF ReleaseVoices(vs) # {} THEN 3
    ELSE IF IdleVoices(vs) # {} THEN 2
    ELSE 4

\* handleNoteOn: which of its four steps handles the note.
NoteOnRule(vs, note) ==
    IF HeldVoices(vs, note) # {} THEN 1
    ELSE IF IdleVoices(vs) # {} THEN 2
    ELSE IF ReleaseVoices(vs) # {} THEN 3
    ELSE 4

\* void handleNoteOn(uint8_t note, fix15 velocity): the voices after the call.
HandleNoteOn(vs, note) ==
    LET rule == NoteOnRule(vs, note)
        scan == OldestVoiceScan(vs, 2, 1)
    IN  CASE rule = 1 -> [vs EXCEPT ![FirstVoice(HeldVoices(vs, note))] = VoiceNoteOn(@, note)]
          [] rule = 2 -> [vs EXCEPT ![FirstVoice(IdleVoices(vs))] = VoiceNoteOn(@, note)]
          [] rule = 3 -> [vs EXCEPT ![FirstVoice(ReleaseVoices(vs))] = VoiceNoteOn(@, note)]
          [] OTHER    -> [scan.voices EXCEPT ![scan.oldest] = VoiceNoteOn(@, note)]

\* void handleNoteOff(uint8_t note): the first active voice playing the note.
HandleNoteOff(vs, note) ==
    LET playing == {i \in DOMAIN vs : vs[i].isActive /\ vs[i].midiNote = note}
    IN  IF playing # {}
            THEN [vs EXCEPT ![FirstVoice(playing)] = VoiceNoteOff(@)]
            ELSE vs

\* An all-notes-off that stops at the first active voice, as handleNoteOff does.
HandleAllNotesOffFirstOnly(vs) ==
    LET active == {i \in DOMAIN vs : vs[i].isActive}
    IN  IF active # {}
            THEN [vs EXCEPT ![FirstVoice(active)] = VoiceNoteOff(@)]
            ELSE vs

\* void handleAllNotesOff()
HandleAllNotesOff(vs) ==
    [i \in DOMAIN vs |-> IF vs[i].isActive THEN VoiceNoteOff(vs[i]) ELSE vs[i]]

\* One frame of process(): processVoice() runs for every voice whose envelope
\* is active and advances that envelope by one getNextValue().
RenderFrame(vs) ==
    [i \in DOMAIN vs |->
        IF EnvIsActive(vs[i].envelope)
            THEN [vs[i] EXCEPT !.envelope = EnvGetNextValue(vs[i].envelope)]
            ELSE vs[i]]

(***************************************************************************)
(* Bounds of the model                                                     *)
(***************************************************************************)
MaxRamp == 3        \* smoother ramp lengths 0..MaxRamp
MaxAttack == 2      \* attack lengths in samples, 0..MaxAttack
MaxDecay == 2       \* decay lengths in samples, 0..MaxDecay
MaxRelease == 2     \* release lengths in samples, 0..MaxRelease
StealLen == 2       \* steal-fade length in samples at the low sample rate
NumNotes == 5       \* MIDI notes 60..60+NumNotes-1 (one more than there are voices)
EnvEvents == 3      \* noteOn()/noteOff() calls in one behaviour of SpecEnv
MaxEvents == 2      \* note events handled in one behaviour of SpecVoice
StealEvents == 1    \* note-ons handled in one behaviour of SpecSteal
FifoDepth == 2      \* packets the inter-core FIFO holds before a push blocks
MaxPushes == 3      \* packets the control core pushes in one behaviour of SpecFifo
OpsCalls == 5       \* calls made on one smoother in one behaviour of SpecSmoothOps
HsCalls == 3        \* setTargetValue() calls in one behaviour of SpecHandshake
MidiMsgs == 2       \* MIDI messages read in one behaviour of SpecMidi and SpecLine

MaxModules == 3     \* modules registered with one AudioEngine in SpecEngine
MaxBlocks == 2      \* processNextBlock() calls in one behaviour of SpecEngine
EngineFrames == 2   \* samples in the buffer view handed to the engine in SpecEngine

MaxIrqs == 4        \* buffer-complete interrupts in one behaviour of SpecI2s and SpecPwm

MaxSamples == 2     \* samples with freely chosen input and parameters in SpecFilter

EnvSetEvents == 3   \* noteOn(), noteOff() and setter calls in one behaviour of SpecEnvSet

GainFrames == 2       \* frames in one block given to GainModule::process
MaxGainBlocks == 3    \* blocks processed in one behaviour of SpecGain
MaxCcs == 2           \* control changes of masterVol in one behaviour of SpecGain
GainRampSamples == 2  \* the shortest ramp that counts as smoothing the master volume

MaxCoreMsgs == 2      \* MIDI messages handled by the control core in one behaviour of SpecCores
MaxCoreBlocks == 2    \* blocks processed by the audio core in one behaviour of SpecCores

BankFrames == 2       \* frames in one block of SpecBank (fewer than the sustain ramp at LowRate)
MaxSustainCcs == 1    \* control changes of the sustain parameter in one behaviour of SpecBank

MaxPhaseCalls == 110  \* next() calls on one phase accumulator between two note-ons in SpecPhase

\* A sample rate at which the 5 ms steal fade lasts StealLen samples.
LowRate == 200 * StealLen

\* The fix15 values the smoother is driven with: both signs, differences
\* smaller than the ramp length (the step truncates to 0) and larger ones.
SmoothValues == {-9, -1, 0, 2, 40}

\* Sustain levels: 0.0, float2fix15(0.3f) and 1.0.
SustainLevels == {0, 9830, FIX15_ONE}

Min(a, b) == IF a <= b THEN a ELSE b

(***************************************************************************)
(* Initial values of each group of variables                               *)
(***************************************************************************)
SmIdle == /\ sm = Fix15SmoothedValue(0, FIX15_ZERO)
          /\ smh = [set |-> FALSE, a |-> 0, b |-> 0, calls |-> 0]
          /\ sv = <<>>
          /\ hs = <<>>

EnvIdle == /\ env = Fix15VCAEnvelopeModule(LowRate, 1, 1, FIX15_ZERO, 1)
           /\ envh = [evt |-> "none", fromState |-> "Idle", fromLevel |-> 0,
                      calls |-> 0, prevState |-> "Idle", prevLevel |-> 0, n |-> 0]

VoiceIdle == /\ voices = <<>>
             /\ vh = <<>>

FifoIdle == /\ fifo = <<>>
            /\ cons = "render"
            /\ pushed = <<>>
            /\ popped = <<>>
            /\ params = <<>>
            /\ lis = <<>> /\ upd = <<>>

DspIdle == wire = <<>> /\ osc = <<>>

IoIdle == /\ engine = <<>> /\ blk = <<>>
          /\ out = <<>> /\ outh = <<>>
          /\ filt = <<>>
          /\ gain = <<>> /\ gainh = <<>>
          /\ DspIdle

(***************************************************************************)
(* SpecSmooth: one Fix15SmoothedValue driven by setTargetValue (control    *)
(* side) and getNextValue (audio side).                                    *)
(***************************************************************************)
SmCallCap == MaxRamp + 2

SmInit ==
    /\ IoIdle
    /\ \E r \in 0..MaxRamp, a \in SmoothValues : sm = Fix15SmoothedValue(r, a)
    /\ smh = [set |-> FALSE, a |-> 0, b |-> 0, calls |-> 0]
    /\ sv = <<>> /\ hs = <<>>
    /\ EnvIdle /\ VoiceIdle /\ FifoIdle

\* setTargetValue(b)
SmSetTargetValue ==
    \E b \in SmoothValues :
        /\ sm' = Fix15SetTargetValue(sm, b)
        /\ smh' = [set |-> TRUE, a |-> sm.currentValue, b |-> b, calls |-> 0]
        /\ UNCHANGED <<ioVars, sv, hs, envVars, voiceVars, fifoVars>>

\* getNextValue()
SmGetNextValue ==
    /\ sm' = Fix15GetNextValue(sm)
    /\ smh' = [smh EXCEPT !.calls = Min(smh.calls + 1, SmCallCap)]
    /\ UNCHANGED <<ioVars, sv, hs, envVars, voiceVars, fifoVars>>

SmNext == SmSetTargetValue \/ SmGetNextValue

SpecSmooth == SmInit /\ [][SmNext]_vars

(***************************************************************************)
(* SpecSmoothOps: one smoother of either class, freshly constructed, under *)
(* any sequence of reset, setValue, setTargetValue and getNextValue.       *)
(***************************************************************************)
\* Values given to the smoothers: as fix15, both signs; as uint32_t, -3 is
\* 4294967293, so that ramps go up, go down and wrap.
OpsValues == {-3, 0, 5}

\* Ramp lengths given to reset(int): negative, zero and positive.
OpsRamps == -1..MaxRamp

OpsInit ==
    /\ IoIdle
    /\ sm = [Fix15SmoothedValue(0, FIX15_ZERO) EXCEPT !.pendingTarget = FIX15_ZERO]
    /\ sv = SmoothedValue(0, 0)
    /\ \E w \in {"Fix15SmoothedValue", "SmoothedValue"} :
           smh = [which |-> w, n |-> 0, op |-> "constructor", before |-> <<>>]
    /\ hs = <<>>
    /\ EnvIdle /\ VoiceIdle /\ FifoIdle

OpsFix15(op, after) ==
    /\ smh.which = "Fix15SmoothedValue"
    /\ smh.n < OpsCalls
    /\ sm' = after
    /\ smh' = [smh EXCEPT !.n = smh.n + 1, !.op = op, !.before = sm]
    /\ UNCHANGED <<ioVars, sv, hs, envVars, voiceVars, fifoVars>>

OpsSmoothed(op, after) ==
    /\ smh.which = "SmoothedValue"
    /\ smh.n < OpsCalls
    /\ sv' = after
    /\ smh' = [smh EXCEPT !.n = smh.n + 1, !.op = op, !.before = sv]
    /\ UNCHANGED <<ioVars, sm, hs, envVars, voiceVars, fifoVars>>

OpsFix15Reset == \E n \in OpsRamps : OpsFix15("reset", Fix15Reset(sm, n))
OpsFix15SetValue == \E v \in OpsValues : OpsFix15("setValue", Fix15SetValue(sm, v))
OpsFix15SetTargetValue ==
    \E v \in OpsValues : OpsFix15("setTargetValue", Fix15SetTargetValue(sm, v))
OpsFix15GetNextValue == OpsFix15("getNextValue", Fix15GetNextValue(sm))

OpsSmoothedReset == \E n \in OpsRamps : OpsSmoothed("reset", SmoothedReset(sv, n))
OpsSmoothedSetValue == \E v \in OpsValues : OpsSmoothed("setValue", SmoothedSetValue(sv, v))
OpsSmoothedSetTargetValue ==
    \E v \in OpsValues : OpsSmoothed("setTargetValue", SmoothedSetTargetValue(sv, v))
OpsSmoothedGetNextValue == OpsSmoothed("getNextValue", SmoothedGetNextValue(sv))

OpsNext ==
    \/ OpsFix15Reset
    \/ OpsFix15SetValue
    \/ OpsFix15SetTargetValue
    \/ OpsFix15GetNextValue
    \/ OpsSmoothedReset
    \/ OpsSmoothedSetValue
    \/ OpsSmoothedSetTargetValue
    \/ OpsSmoothedGetNextValue

SpecSmoothOps == OpsInit /\ [][OpsNext]_vars

(***************************************************************************)
(* SpecHandshake: one Fix15SmoothedValue shared by the two cores.  The     *)
(* control core runs setTargetValue() calls one memory access at a time,   *)
(* the audio core runs getNextValue() calls one shared access at a time;   *)
(* the accesses interleave freely.  hs holds each core's position, the     *)
(* audio core's local newTarget, and for every shared word the number of   *)
(* the setTargetValue() call that wrote it (0: the constructor).           *)
(***************************************************************************)
HsValues == {3, 7}

HsInit ==
    /\ IoIdle
    /\ \E r \in 0..1 : sm = Fix15SmoothedValue(r, FIX15_ZERO)
    /\ hs = [ cpc |-> 1, args |-> <<>>, pendingBy |-> 0, flagBy |-> 0,
              apc |-> "test", newTarget |-> 0, sawFlagOf |-> 0, readBy |-> 0 ]
    /\ smh = [set |-> FALSE, a |-> 0, b |-> 0, calls |-> 0]
    /\ sv = <<>>
    /\ EnvIdle /\ VoiceIdle /\ FifoIdle

\* The control core's next access is `word'; with its first access a new
\* call setTargetValue(v) begins.
HsControl(word, v) ==
    /\ SetTargetValueSteps[hs.cpc] = word
    /\ hs.cpc = 1 => Len(hs.args) < HsCalls
    /\ hs.cpc > 1 => v = hs.args[Len(hs.args)]

HsArgs(v) == IF hs.cpc = 1 THEN Append(hs.args, v) ELSE hs.args

HsControlNext == IF hs.cpc = Len(SetTargetValueSteps) THEN 1 ELSE hs.cpc + 1

\* pendingTarget = newValue;
HsWritePendingTarget ==
    \E v \in HsValues :
        /\ HsControl("pendingTarget", v)
        /\ sm' = [sm EXCEPT !.pendingTarget = v]
        /\ hs' = [hs EXCEPT !.cpc = HsControlNext, !.args = HsArgs(v),
                            !.pendingBy = Len(HsArgs(v))]
        /\ UNCHANGED <<ioVars, smh, sv, envVars, voiceVars, fifoVars>>

\* __dmb(); in setTargetValue()
HsControlBarrier ==
    \E v \in HsValues :
        /\ HsControl("dmb", v)
        /\ hs' = [hs EXCEPT !.cpc = HsControlNext, !.args = HsArgs(v)]
        /\ UNCHANGED <<ioVars, sm, smh, sv, envVars, voiceVars, fifoVars>>

\* hasNewTarget = true;
HsSetFlag ==
    \E v \in HsValues :
        /\ HsControl("hasNewTarget", v)
        /\ sm' = [sm EXCEPT !.hasNewTarget = TRUE]
        /\ hs' = [hs EXCEPT !.cpc = HsControlNext, !.args = HsArgs(v),
                            !.flagBy = Len(HsArgs(v))]
        /\ UNCHANGED <<ioVars, smh, sv, envVars, voiceVars, fifoVars>>

\* if (hasNewTarget): when the flag is clear the call finishes with the ramp step.
HsTestFlag ==
    /\ hs.apc = "test"
    /\ IF sm.hasNewTarget
          THEN /\ hs' = [hs EXCEPT !.apc = "read", !.sawFlagOf = hs.flagBy]
               /\ sm' = sm
          ELSE /\ hs' = hs
               /\ sm' = Fix15Advance(sm)
    /\ UNCHANGED <<ioVars, smh, sv, envVars, voiceVars, fifoVars>>

\* fix15 newTarget = pendingTarget;
HsReadPendingTarget ==
    /\ hs.apc = "read"
    /\ hs' = [hs EXCEPT !.apc = "dmb", !.newTarget = sm.pendingTarget,
                        !.readBy = hs.pendingBy]
    /\ UNCHANGED <<ioVars, sm, smh, sv, envVars, voiceVars, fifoVars>>

\* __dmb(); in getNextValue()
HsAudioBarrier ==
    /\ hs.apc = "dmb"
    /\ hs' = [hs EXCEPT !.apc = "clear"]
    /\ UNCHANGED <<ioVars, sm, smh, sv, envVars, voiceVars, fifoVars>>

\* hasNewTarget = false; and the rest of the call, which touches only words
\* of the audio core.
HsClearFlag ==
    /\ hs.apc = "clear"
    /\ sm' = Fix15Advance(Fix15StartRamp(sm, hs.newTarget))
    /\ hs' = [hs EXCEPT !.apc = "test"]
    /\ UNCHANGED <<ioVars, smh, sv, envVars, voiceVars, fifoVars>>

HsNext ==
    \/ HsWritePendingTarget
    \/ HsControlBarrier
    \/ HsSetFlag
    \/ HsTestFlag
    \/ HsReadPendingTarget
    \/ HsAudioBarrier
    \/ HsClearFlag

SpecHandshake == HsInit /\ [][HsNext]_vars

\* One step of the audio core's getNextValue() calls.
HsAudio == HsTestFlag \/ HsReadPendingTarget \/ HsAudioBarrier \/ HsClearFlag

\* The audio core keeps calling getNextValue(); the control core may stop
\* after any access.
SpecHandshakeLive == SpecHandshake /\ WF_vars(HsAudio)

(***************************************************************************)
(* SpecParam: one Parameter with the range of a parameter of the store,    *)
(* constructed with any default and then driven by setValue and            *)
(* setNormalizedValue.  params holds the parameter, the last call and its  *)
(* argument.                                                               *)
(***************************************************************************)
\* Arguments of setValue and default values: negative, zero, below every
\* non-zero minimum, inside the ranges, on their ends, above every maximum.
ParamValues ==
    { F32Neg(F32One), F32Zero, F32Decimal(5, 10000), F32Decimal(1, 1000),
      F32Decimal(2, 100), F32Decimal(5, 100), F32Decimal(5, 10),
      F32Decimal(95, 100), F32One, F32Decimal(2, 1), F32Decimal(25, 10),
      F32Decimal(5, 1), F32Decimal(7, 1) }

\* Arguments of setNormalizedValue: every quotient data2 / 127.0f of a MIDI
\* data byte, a negative value, a value above 1, 2^-30, and 13427144 * 2^-24
\* (about 0.80032).
NormValues ==
    { F32Div(F32FromInt(k), F32FromInt(CC_FULL_SCALE)) : k \in 0..CC_FULL_SCALE } \cup
    { F32Neg(F32Decimal(1, 2)),
      F32Decimal(3, 2),
      [neg |-> FALSE, m |-> 2^23, e |-> -53],
      [neg |-> FALSE, m |-> 13427144, e |-> -24] }

ParamInit ==
    /\ IoIdle
    /\ \E i \in DOMAIN initialize_parameters, d \in ParamValues :
           LET q == initialize_parameters[i]
           IN  params = [ p |-> Parameter(q.parameterID, q.displayName, q.minimum,
                                          q.maximum, d, q.ccNumber),
                          op |-> "constructor", arg |-> d ]
    /\ lis = <<>> /\ upd = <<>>
    /\ fifo = <<>> /\ cons = "render" /\ pushed = <<>> /\ popped = <<>>
    /\ SmIdle /\ EnvIdle /\ VoiceIdle

\* setValue(v)
ParamDoSetValue ==
    \E v \in ParamValues :
        /\ params' = [p |-> ParamSetValue(params.p, v), op |-> "setValue", arg |-> v]
        /\ UNCHANGED <<ioVars, lis, upd, fifo, cons, pushed, popped, smVars, envVars, voiceVars>>

\* setNormalizedValue(n)
ParamDoSetNormalizedValue ==
    \E n \in NormValues :
        /\ params' = [p |-> ParamSetNormalizedValue(params.p, n),
                      op |-> "setNormalizedValue", arg |-> n]
        /\ UNCHANGED <<ioVars, lis, upd, fifo, cons, pushed, popped, smVars, envVars, voiceVars>>

ParamNext == ParamDoSetValue \/ ParamDoSetNormalizedValue

SpecParam == ParamInit /\ [][ParamNext]_vars

(***************************************************************************)
(* SpecEnv: one envelope with settled parameters, driven by noteOn,        *)
(* noteOff and getNextValue.                                               *)
(***************************************************************************)
EnvCallCap == MaxAttack + MaxDecay + MaxRelease + StealLen + 1

EnvInit ==
    /\ IoIdle
    /\ \E a \in 0..MaxAttack, d \in 0..MaxDecay, r \in 0..MaxRelease, s \in SustainLevels :
           env = Fix15VCAEnvelopeModule(LowRate, a, d, s, r)
    /\ envh = [evt |-> "none", fromState |-> "Idle", fromLevel |-> 0,
               calls |-> 0, prevState |-> "Idle", prevLevel |-> 0, n |-> 0]
    /\ SmIdle /\ VoiceIdle /\ FifoIdle

\* noteOn()
EnvDoNoteOn ==
    /\ envh.n < EnvEvents
    /\ env' = EnvNoteOn(env)
    /\ envh' = [evt |-> "on", fromState |-> env.state, fromLevel |-> env.currentLevel,
                calls |-> 0, prevState |-> env.state, prevLevel |-> env.currentLevel,
                n |-> envh.n + 1]
    /\ UNCHANGED <<ioVars, smVars, voiceVars, fifoVars>>

\* noteOff()
EnvDoNoteOff ==
    /\ envh.n < EnvEvents
    /\ env' = EnvNoteOff(env)
    /\ envh' = [evt |-> "off", fromState |-> env.state, fromLevel |-> env.currentLevel,
                calls |-> 0, prevState |-> env.state, prevLevel |-> env.currentLevel,
                n |-> envh.n + 1]
    /\ UNCHANGED <<ioVars, smVars, voiceVars, fifoVars>>

\* getNextValue()
EnvDoGetNextValue ==
    /\ env' = EnvGetNextValue(env)
    /\ envh' = [envh EXCEPT !.calls = Min(envh.calls + 1, EnvCallCap),
                            !.prevState = env.state,
                            !.prevLevel = env.currentLevel]
    /\ UNCHANGED <<ioVars, smVars, voiceVars, fifoVars>>

EnvNext == EnvDoNoteOn \/ EnvDoNoteOff \/ EnvDoGetNextValue

SpecEnv == EnvInit /\ [][EnvNext]_vars

(***************************************************************************)
(* SpecEnvSet: one envelope driven by noteOn, noteOff, getNextValue and    *)
(* the four parameter setters, at sample rates low enough for the 50 ms    *)
(* smoothing of the sample counts to last one or two samples.  envh keeps  *)
(* the last operation, the envelope as that operation found it, and the    *)
(* number of note events and setter calls so far.                          *)
(***************************************************************************)
EnvSetRates == {20, 40}
EnvSetTimesMs == {50, 200}

EnvSetInit ==
    /\ IoIdle
    /\ \E rate \in EnvSetRates, a \in {1, 4}, d \in {0, 2}, r \in {0, 2},
          s \in SustainLevels :
           /\ env = Fix15VCAEnvelopeModule(rate, a, d, s, r)
           /\ envh = [op |-> "constructor", rate |-> rate, before |-> <<>>, n |-> 0]
    /\ SmIdle /\ VoiceIdle /\ FifoIdle

EnvSetDo(op, after, n) ==
    /\ env' = after
    /\ envh' = [envh EXCEPT !.op = op, !.before = env, !.n = n]
    /\ UNCHANGED <<ioVars, smVars, voiceVars, fifoVars>>

EnvSetNoteOn ==
    /\ envh.n < EnvSetEvents
    /\ EnvSetDo("noteOn", EnvNoteOn(env), envh.n + 1)

EnvSetNoteOff ==
    /\ envh.n < EnvSetEvents
    /\ EnvSetDo("noteOff", EnvNoteOff(env), envh.n + 1)

EnvSetGetNextValue ==
    EnvSetDo("getNextValue", EnvGetNextValue(env), envh.n)

EnvSetAttack ==
    /\ envh.n < EnvSetEvents
    /\ \E ms \in EnvSetTimesMs :
           EnvSetDo("setAttackTime",
                    EnvSetAttackTime(env, TimeSamplesFor(envh.rate, ms)), envh.n + 1)

EnvSetDecay ==
    /\ envh.n < EnvSetEvents
    /\ \E ms \in EnvSetTimesMs :
           EnvSetDo("setDecayTime",
                    EnvSetDecayTime(env, TimeSamplesFor(envh.rate, ms)), envh.n + 1)

EnvSetSustain ==
    /\ envh.n < EnvSetEvents
    /\ \E level \in SustainLevels :
           EnvSetDo("setSustainLevel", EnvSetSustainLevel(env, level), envh.n + 1)

EnvSetRelease ==
    /\ envh.n < EnvSetEvents
    /\ \E ms \in EnvSetTimesMs :
           EnvSetDo("setReleaseTime",
                    EnvSetReleaseTime(env, TimeSamplesFor(envh.rate, ms)), envh.n + 1)

EnvSetNext ==
    \/ EnvSetNoteOn \/ EnvSetNoteOff \/ EnvSetGetNextValue
    \/ EnvSetAttack \/ EnvSetDecay \/ EnvSetSustain \/ EnvSetRelease

SpecEnvSet == EnvSetInit /\ [][EnvSetNext]_vars

(***************************************************************************)
(* SpecVoice: the voice bank driven by the note events the audio core      *)
(* pops from the FIFO (handleNoteOn, handleNoteOff, handleAllNotesOff) and *)
(* by the frames of process().  Envelope parameters are settled.  A        *)
(* behaviour starts with some keys already held, and handles at most       *)
(* MaxEvents further note events.                                          *)
(***************************************************************************)
Notes == 60..(60 + NumNotes - 1)

VoiceCallCap == MaxRelease + 1

NoEvent == [kind |-> "none", note |-> 0]

\* vs after n further frames of process().
RECURSIVE RenderFrames(_, _)
RenderFrames(vs, n) ==
    IF n = 0 THEN vs
    ELSE CHOOSE r \in {RenderFrames(w, n - 1) : w \in {RenderFrame(vs)}} : TRUE

\* The bank after the keys 60 .. 60+k-1 were pressed one after the other,
\* gap frames apart, and are still held.
RECURSIVE HeldChord(_, _, _)
HeldChord(vs, k, gap) ==
    IF k = 0 THEN vs
    ELSE CHOOSE r \in
             { RenderFrames(w, gap) :
                   w \in { HandleNoteOn(b, 60 + k - 1) : b \in {HeldChord(vs, k - 1, gap)} } } :
             TRUE

\* The voice that holds note n after a note-on for n (0 when there is none).
Receiver(vs, n) ==
    IF \E i \in DOMAIN vs : vs[i].midiNote = n /\ vs[i].isActive
        THEN CHOOSE i \in DOMAIN vs : vs[i].midiNote = n /\ vs[i].isActive
        ELSE 0

\* Every voice sounds at a level above 0, none is in Release and none holds note n.
AllBusy(vs, n) ==
    \A i \in DOMAIN vs :
        /\ EnvIsActive(vs[i].envelope)
        /\ vs[i].envelope.currentLevel > 0
        /\ vs[i].envelope.state # "Release"
        /\ vs[i].midiNote # n

\* The history kept beside the voices: the last event and the one before, the
\* voices just before the last event (until the next frame), the voice that
\* received the last note-on and whether the bank was full then, frames since
\* the last event, frames since an all-notes-off not followed by a note-on,
\* and the number of events so far.
VoiceHistory0 ==
    [evt |-> NoEvent, prev |-> NoEvent, pre |-> <<>>, who |-> 0, full |-> FALSE,
     since |-> 0, allOff |-> -1, n |-> 0]

\* The sustain level of the voice bank: the parameter's default, float2fix15(0.3f).
SUSTAIN_DEFAULT == 9830

VoiceInit ==
    /\ IoIdle
    /\ \E k \in {0, NUM_VOICES - 1, NUM_VOICES}, gap \in {1, MaxAttack + MaxDecay} :
           voices = HeldChord(SimpleFixedOscModule(LowRate, MaxAttack, MaxDecay,
                                                   SUSTAIN_DEFAULT, MaxRelease),
                              k, gap)
    /\ vh = VoiceHistory0
    /\ SmIdle /\ EnvIdle /\ FifoIdle

\* A note-on packet is popped: handleNoteOn(note, velocity)
NoteOnEvent(budget, notes) ==
    \E n \in notes :
        /\ vh.n < budget
        /\ voices' = HandleNoteOn(voices, n)
        /\ vh' = [evt |-> [kind |-> "on", note |-> n], prev |-> vh.evt,
                  pre |-> voices, who |-> Receiver(voices', n), full |-> AllBusy(voices, n),
                  since |-> 0, allOff |-> -1, n |-> vh.n + 1]
        /\ UNCHANGED <<ioVars, smVars, envVars, fifoVars>>

\* One frame of process() is rendered.
FrameEvent(sinceCap, offCap) ==
    /\ voices' = RenderFrame(voices)
    /\ vh' = [vh EXCEPT !.pre = <<>>,
                        !.since = Min(vh.since + 1, sinceCap),
                        !.allOff = IF vh.allOff < 0 THEN -1
                                   ELSE Min(vh.allOff + 1, offCap)]
    /\ UNCHANGED <<ioVars, smVars, envVars, fifoVars>>

VoiceHandleNoteOn == NoteOnEvent(MaxEvents, Notes)

\* A note-off packet is popped: handleNoteOff(note)
VoiceHandleNoteOff ==
    \E n \in Notes :
        /\ vh.n < MaxEvents
        /\ voices' = HandleNoteOff(voices, n)
        /\ vh' = [evt |-> [kind |-> "off", note |-> n], prev |-> vh.evt,
                  pre |-> voices, who |-> 0, full |-> FALSE,
                  since |-> 0, allOff |-> vh.allOff, n |-> vh.n + 1]
        /\ UNCHANGED <<ioVars, smVars, envVars, fifoVars>>

\* An all-notes-off packet is popped: handleAllNotesOff()
VoiceHandleAllNotesOff ==
    /\ vh.n < MaxEvents
    /\ voices' = HandleAllNotesOff(voices)
    /\ vh' = [evt |-> [kind |-> "alloff", note |-> 0], prev |-> vh.evt,
              pre |-> voices, who |-> 0, full |-> FALSE,
              since |-> 0, allOff |-> 0, n |-> vh.n + 1]
    /\ UNCHANGED <<ioVars, smVars, envVars, fifoVars>>

VoiceRenderFrame == FrameEvent(1, VoiceCallCap)

VoiceNext ==
    \/ VoiceHandleNoteOn
    \/ VoiceHandleNoteOff
    \/ VoiceHandleAllNotesOff
    \/ VoiceRenderFrame

SpecVoice == VoiceInit /\ [][VoiceNext]_vars

(***************************************************************************)
(* SpecSteal: the voice bank at the I2S sample rate, where the steal fade  *)
(* lasts 220 samples, with the four keys 60..63 held and up to StealEvents *)
(* further note-ons.                                                       *)
(***************************************************************************)
SAMPLE_RATE == 44100

\* stealFadeSamples at 44100 Hz: (uint32_t)(0.005f * sampleRate)
STEAL_FADE_SAMPLES == 220

\* A held key and two keys no voice holds.
StealNotes == {60, 60 + NUM_VOICES, 60 + NUM_VOICES + 1}

StealInit ==
    /\ IoIdle
    /\ \E gap \in {1, MaxAttack + MaxDecay + 1} :
           voices = HeldChord(SimpleFixedOscModule(SAMPLE_RATE, MaxAttack, MaxDecay,
                                                   SUSTAIN_DEFAULT, MaxRelease),
                              NUM_VOICES, gap)
    /\ vh = VoiceHistory0
    /\ SmIdle /\ EnvIdle /\ FifoIdle

StealHandleNoteOn == NoteOnEvent(StealEvents, StealNotes)

StealRenderFrame == FrameEvent(StealFadeSamplesFor(SAMPLE_RATE) + 1, 0)

StealNext == StealHandleNoteOn \/ StealRenderFrame

SpecSteal == StealInit /\ [][StealNext]_vars

(***************************************************************************)
(* SpecFifo: the control core pushes note packets into the inter-core      *)
(* FIFO while the audio core, once per block, drains it in                 *)
(* updateControlSignals() and renders BUFFER_SIZE frames.  A push and a    *)
(* pop are single steps, so pushes interleave with the drain loop.         *)
(***************************************************************************)
NOTE_OFF_CMD == 128
NOTE_ON_CMD == 144
ALL_NOTES_OFF_CMD == 176
BUFFER_SIZE == 64

\* uint32_t packet = (command << 24) | (data1 << 16) | (data2 << 8), for three
\* uint8_t arguments.  The word is kept as the int32_t with the same 32 bits.
Packet(command, data1, data2) ==
    (IF command >= 128 THEN command - 256 ELSE command) * 16777216
        + data1 * 65536 + data2 * 256

\* (packet >> 24) without the & 0xFF, on the word read as a signed number.
PacketCommandSigned(packet) == packet \div 16777216

\* (packet >> 24) & 0xFF, (packet >> 16) & 0xFF, (packet >> 8) & 0xFF
PacketCommand(packet) == (packet \div 16777216) % 256
PacketData1(packet)   == (packet \div 65536) % 256
PacketData2(packet)   == (packet \div 256) % 256

\* A push that drops the packet when the FIFO is full instead of waiting.
multicore_fifo_push_dropping(q, packet) ==
    [ready |-> TRUE, queue |-> IF Len(q) < FifoDepth THEN Append(q, packet) ELSE q]

\* multicore_fifo_push_blocking(packet): waits until the FIFO has room.
multicore_fifo_push_blocking(q, packet) ==
    [ready |-> Len(q) < FifoDepth, queue |-> Append(q, packet)]

\* multicore_fifo_rvalid()
multicore_fifo_rvalid(q) == q # <<>>

\* The body of the drain loop: the voices after the packet is dispatched.
DispatchPacket(vs, packet) ==
    LET command == PacketCommand(packet)
        data1   == PacketData1(packet)
        data2   == PacketData2(packet)
    IN  IF command = 144 /\ data2 > 0 THEN HandleNoteOn(vs, data1)
        ELSE IF command = 128 \/ (command = 144 /\ data2 = 0) THEN HandleNoteOff(vs, data1)
        ELSE IF command = 176 /\ data1 = 123 THEN HandleAllNotesOff(vs)
        ELSE vs

\* The parameter refresh that ends updateControlSignals(), with the parameters
\* unchanged: setSustainLevel() hands the level to the smoother again; the
\* sample-count smoothers ignore a target equal to the one they have.
RefreshParameters(vs) ==
    [i \in DOMAIN vs |->
        [vs[i] EXCEPT !.envelope.s_sustainLevel =
                          Fix15SetTargetValue(@, vs[i].envelope.s_sustainLevel.targetValue)]]

\* The keys and the note-on velocities of the packets pushed.
FifoNotes == {60, 61}
FifoVelocities == {100}

FifoInit ==
    /\ IoIdle
    /\ fifo = <<>> /\ cons = "drain" /\ pushed = <<>> /\ popped = <<>>
    /\ params = <<>> /\ lis = <<>> /\ upd = <<>>
    /\ voices = SimpleFixedOscModule(SAMPLE_RATE, MaxAttack, MaxDecay, SUSTAIN_DEFAULT, MaxRelease)
    /\ vh = <<>>
    /\ SmIdle /\ EnvIdle

\* The control core pushes packet, or waits while the FIFO is full.
PushPacket(packet) ==
    LET push == multicore_fifo_push_blocking(fifo, packet)
    IN  /\ Len(pushed) < MaxPushes
        /\ push.ready
        /\ fifo' = push.queue
        /\ pushed' = Append(pushed, packet)
        /\ UNCHANGED <<ioVars, cons, popped, params, lis, upd, voiceVars, smVars, envVars>>

\* handleMidiMessage() -> sendNoteToCore1(command, data1, data2)
SendNoteToCore1 ==
    \E n \in FifoNotes :
        \/ \E v \in FifoVelocities : PushPacket(Packet(NOTE_ON_CMD, n, v))
        \/ PushPacket(Packet(NOTE_OFF_CMD, n, 0))

\* handleMidiMessage() -> sendAllNotesOffToCore1()
SendAllNotesOffToCore1 == PushPacket(Packet(ALL_NOTES_OFF_CMD, 123, 0))

\* One turn of the drain loop: rvalid, pop, dispatch.
DrainPop ==
    /\ cons = "drain"
    /\ multicore_fifo_rvalid(fifo)
    /\ fifo' = Tail(fifo)
    /\ popped' = Append(popped, Head(fifo))
    /\ voices' = DispatchPacket(voices, Head(fifo))
    /\ UNCHANGED <<ioVars, cons, pushed, params, lis, upd, vh, smVars, envVars>>

\* The drain loop finds the FIFO empty; updateControlSignals() finishes.
DrainExit ==
    /\ cons = "drain"
    /\ ~multicore_fifo_rvalid(fifo)
    /\ cons' = "render"
    /\ voices' = RefreshParameters(voices)
    /\ UNCHANGED <<ioVars, fifo, pushed, popped, params, lis, upd, vh, smVars, envVars>>

\* The frames of the block are rendered; the next process() call follows.
RenderBlock ==
    /\ cons = "render"
    /\ voices' = RenderFrames(voices, BUFFER_SIZE)
    /\ cons' = "drain"
    /\ UNCHANGED <<ioVars, fifo, pushed, popped, params, lis, upd, vh, smVars, envVars>>

FifoNext ==
    \/ SendNoteToCore1
    \/ SendAllNotesOffToCore1
    \/ DrainPop
    \/ DrainExit
    \/ RenderBlock

SpecFifo == FifoInit /\ [][FifoNext]_vars

(***************************************************************************)
(* SpecPacket: one packet is built on the control core by sendNoteToCore1  *)
(* or sendAllNotesOffToCore1 and taken apart on the audio core by          *)
(* updateControlSignals().  pushed holds what was sent, popped the four    *)
(* bytes the consumer takes out of the word.                               *)
(***************************************************************************)
\* The values of a uint8_t
Bytes == 0..255

PacketInit ==
    /\ IoIdle
    /\ fifo = <<>> /\ pushed = <<>> /\ popped = <<>>
    /\ cons = "render" /\ params = <<>> /\ lis = <<>> /\ upd = <<>>
    /\ SmIdle /\ EnvIdle /\ VoiceIdle

PacketSend(command, data1, data2) ==
    /\ fifo' = <<Packet(command, data1, data2)>>
    /\ pushed' = <<<<command, data1, data2>>>>
    /\ UNCHANGED <<ioVars, popped, cons, params, lis, upd, smVars, envVars, voiceVars>>

\* sendNoteToCore1(command, data1, data2) as handleMidiMessage calls it
PacketSendNote ==
    /\ pushed = <<>>
    /\ \E command \in {NOTE_OFF_CMD, NOTE_ON_CMD}, data1 \in Bytes, data2 \in Bytes :
           PacketSend(command, data1, data2)

\* sendAllNotesOffToCore1()
PacketSendAllNotesOff ==
    /\ pushed = <<>>
    /\ PacketSend(ALL_NOTES_OFF_CMD, 123, 0)

\* The unpacking at the head of the drain loop of updateControlSignals()
PacketReceive ==
    /\ fifo # <<>>
    /\ popped' = << <<PacketCommand(Head(fifo)), PacketData1(Head(fifo)),
                      PacketData2(Head(fifo))>>, Head(fifo) % 256 >>
    /\ fifo' = Tail(fifo)
    /\ UNCHANGED <<ioVars, pushed, cons, params, lis, upd, smVars, envVars, voiceVars>>

PacketNext == PacketSendNote \/ PacketSendAllNotesOff \/ PacketReceive

SpecPacket == PacketInit /\ [][PacketNext]_vars

(***************************************************************************)
(* MidiSerialListener.h: class MidiSerialListener.  The listener is        *)
(* [ascii_pos, ascii_buffer]; ascii_buffer holds the ascii_pos bytes of    *)
(* the line under assembly (the rest of the array is never read).  What a  *)
(* handler prints is a sequence of lines, a line a tuple of its fields.    *)
(***************************************************************************)
PICO_ERROR_TIMEOUT == -1
ASCII_BUFFER_SIZE == 64
ALL_NOTES_OFF_CC == 123

\* "SYNC_KNOBS" in ASCII
SYNC_KNOBS == <<83, 89, 78, 67, 95, 75, 78, 79, 66, 83>>

\* '\n' and '\r'
LineEnds == {10, 13}

\* MidiSerialListener()
MidiSerialListener == [ascii_pos |-> 0, ascii_buffer |-> <<>>]

\* What a handler leaves behind: the parameters, the packets it pushed and the
\* lines it printed.
Handled(ps, packets, lines) == [params |-> ps, packets |-> packets, lines |-> lines]

\* printf("STATE:%d:%.3f\n", p->getCcNumber(), p->getNormalizedValue())
StateLine(p) == <<"STATE", p.ccNumber, F32Thousandths(ParamGetNormalizedValue(p))>>

\* printf("CC_DEF:%d:%s\n", p->getCcNumber(), p->getName().c_str())
CcDefLine(p) == <<"CC_DEF", p.ccNumber, p.displayName>>

\* The first parameter of the store whose CC number is cc (0: none), as the
\* loop with its break finds it.
FirstWithCc(ps, cc) ==
    IF \E i \in DOMAIN ps : ps[i].ccNumber = cc
        THEN CHOOSE i \in DOMAIN ps :
                 /\ ps[i].ccNumber = cc
                 /\ \A j \in DOMAIN ps : ps[j].ccNumber = cc => i <= j
        ELSE 0

\* The control-change branch of handleMidiMessage without the test for CC 123.
HandleControlChangeNoAllNotesOff(ps, data1, data2) ==
    LET i == FirstWithCc(ps, data1)
        q == ParamSetNormalizedValue(ps[i], F32Div(F32FromInt(data2), F32FromInt(CC_FULL_SCALE)))
    IN  IF i = 0 THEN Handled(ps, <<>>, <<>>)
        ELSE Handled([ps EXCEPT ![i] = q], <<>>, <<StateLine(q)>>)

\* The control-change branch of handleMidiMessage.
HandleControlChange(ps, data1, data2) ==
    IF data1 = ALL_NOTES_OFF_CC
        THEN Handled(ps, <<Packet(ALL_NOTES_OFF_CMD, ALL_NOTES_OFF_CC, 0)>>,
                     <<<<"LOG:All Notes Off">>>>)
        ELSE HandleControlChangeNoAllNotesOff(ps, data1, data2)

\* A handleMidiMessage that compares the whole status byte, channel included.
HandleMidiMessageWithChannel(ps, status, data1, data2) ==
    LET command == status
    IN  IF command = 144 /\ data2 > 0
            THEN Handled(ps, <<Packet(NOTE_ON_CMD, data1, data2)>>, <<>>)
        ELSE IF command = 128 \/ (command = 144 /\ data2 = 0)
            THEN Handled(ps, <<Packet(NOTE_OFF_CMD, data1, data2)>>, <<>>)
        ELSE IF command = 176 THEN HandleControlChange(ps, data1, data2)
        ELSE Handled(ps, <<>>, <<>>)

\* void handleMidiMessage(uint8_t status, uint8_t data1, uint8_t data2)
HandleMidiMessage(ps, status, data1, data2) ==
    LET command == (status \div 16) * 16      \* status & 0xF0
    IN  IF command = 144 /\ data2 > 0
            THEN Handled(ps, <<Packet(NOTE_ON_CMD, data1, data2)>>, <<>>)
        ELSE IF command = 128 \/ (command = 144 /\ data2 = 0)
            THEN Handled(ps, <<Packet(NOTE_OFF_CMD, data1, data2)>>, <<>>)
        ELSE IF command = 176 THEN HandleControlChange(ps, data1, data2)
        ELSE Handled(ps, <<>>, <<>>)

\* The C string in a char array whose byte after the last is '\0': the bytes
\* before the first '\0'.  strcmp and printf("%s") see nothing else.
CString(buffer) ==
    IF \E i \in DOMAIN buffer : buffer[i] = 0
        THEN SubSeq(buffer, 1, (CHOOSE i \in DOMAIN buffer :
                                   /\ buffer[i] = 0
                                   /\ \A j \in 1..(i - 1) : buffer[j] # 0) - 1)
        ELSE buffer

\* A handleAsciiCommand that answers SYNC_KNOBS with the STATE lines only.
HandleAsciiCommandNoDefs(ps, buffer) ==
    IF CString(buffer) = SYNC_KNOBS
        THEN Handled(ps, <<>>,
                     <<<<"KNOB_UPDATE_START">>>>
                         \o [i \in DOMAIN ps |-> StateLine(ps[i])]
                         \o <<<<"KNOB_UPDATE_END">>>>)
        ELSE Handled(ps, <<>>, <<<<"LOG:Received ASCII Command: ", CString(buffer)>>>>)

\* void handleAsciiCommand(const char* buffer)
HandleAsciiCommand(ps, buffer) ==
    IF CString(buffer) = SYNC_KNOBS
        THEN Handled(ps, <<>>,
                     <<<<"KNOB_UPDATE_START">>>>
                         \o [i \in DOMAIN ps |-> CcDefLine(ps[i])]
                         \o [i \in DOMAIN ps |-> StateLine(ps[i])]
                         \o <<<<"KNOB_UPDATE_END">>>>)
        ELSE Handled(ps, <<>>, <<<<"LOG:Received ASCII Command: ", CString(buffer)>>>>)

\* An update() that stores a byte whenever ascii_pos < sizeof(ascii_buffer).
AssembleLineNoRoom(l, c) ==
    IF l.ascii_pos < ASCII_BUFFER_SIZE
        THEN [ascii_pos |-> l.ascii_pos + 1, ascii_buffer |-> Append(l.ascii_buffer, c)]
        ELSE l

\* The else-branch of update() for a byte that does not end the line.
AssembleLine(l, c) ==
    IF l.ascii_pos < ASCII_BUFFER_SIZE - 1
        THEN [ascii_pos |-> l.ascii_pos + 1, ascii_buffer |-> Append(l.ascii_buffer, c)]
        ELSE l

\* An update() that reads the line into a MIDI message's place.
UpdateMidiClearsLine(l) == MidiSerialListener

\* What update() does to the line under assembly when a byte with the high
\* bit came: nothing.
UpdateMidiKeepsLine(l) == l

\* void update(), for the byte c that getchar_timeout_us(0) returned and, when
\* c has its high bit set, the results data1 and data2 of the two getchar()
\* calls: the listener after the call and what the handlers left behind.
Update(l, ps, c, data1, data2) ==
    IF c = PICO_ERROR_TIMEOUT
        THEN [lis |-> l, did |-> Handled(ps, <<>>, <<>>)]
    ELSE IF c >= 128
        THEN IF data1 # PICO_ERROR_TIMEOUT /\ data2 # PICO_ERROR_TIMEOUT
                THEN [lis |-> UpdateMidiKeepsLine(l),
                      did |-> HandleMidiMessage(ps, c % 256, data1 % 256, data2 % 256)]
                ELSE [lis |-> UpdateMidiKeepsLine(l), did |-> Handled(ps, <<>>, <<>>)]
    ELSE IF c \in LineEnds
        THEN IF l.ascii_pos > 0
                THEN [lis |-> MidiSerialListener,
                      did |-> HandleAsciiCommand(ps, l.ascii_buffer)]
                ELSE [lis |-> l, did |-> Handled(ps, <<>>, <<>>)]
    ELSE [lis |-> AssembleLine(l, c), did |-> Handled(ps, <<>>, <<>>)]

(***************************************************************************)
(* The control core's loop calls update() again and again; every call is   *)
(* one step.  upd keeps the call's input (c, data1, data2), the listener,  *)
(* the parameters and the FIFO as the call found them, the lines it        *)
(* printed, and the number n of MIDI messages read so far.                 *)
(***************************************************************************)
Update0 ==
    [ n |-> 0, c |-> PICO_ERROR_TIMEOUT, data1 |-> PICO_ERROR_TIMEOUT,
      data2 |-> PICO_ERROR_TIMEOUT, lis |-> MidiSerialListener,
      params |-> initialize_parameters, fifo |-> <<>>, lines |-> <<>> ]

ListenerInit ==
    /\ IoIdle
    /\ lis = MidiSerialListener
    /\ params = initialize_parameters
    /\ fifo = <<>>
    /\ upd = Update0
    /\ cons = "render" /\ pushed = <<>> /\ popped = <<>>
    /\ SmIdle /\ EnvIdle /\ VoiceIdle

\* One call of update() with input c, data1, data2; a packet is pushed when
\* the FIFO has room for it.
UpdateStep(c, data1, data2) ==
    \E u \in {Update(lis, params, c, data1, data2)} :
    LET push == multicore_fifo_push_blocking(fifo, u.did.packets[1])
    IN  /\ u.did.packets # <<>> => push.ready
        /\ lis' = u.lis
        /\ params' = u.did.params
        /\ fifo' = IF u.did.packets # <<>> THEN push.queue ELSE fifo
        /\ upd' = [ n |-> IF c >= 128 THEN upd.n + 1 ELSE upd.n,
                    c |-> c, data1 |-> data1, data2 |-> data2,
                    lis |-> lis, params |-> params, fifo |-> fifo,
                    lines |-> u.did.lines ]
        /\ UNCHANGED <<ioVars, cons, pushed, popped, smVars, envVars, voiceVars>>

\* The command of the last message read: status & 0xF0
UpdCommand == (upd.c \div 16) * 16

\* The last update() read a whole three-byte message.
UpdMessage ==
    upd.c >= 128 /\ upd.data1 # PICO_ERROR_TIMEOUT /\ upd.data2 # PICO_ERROR_TIMEOUT

(***************************************************************************)
(* SpecMidi: the listener fed with MIDI messages of every kind on several  *)
(* channels and with the text lines SYNC_KNOBS, x and SYNC_KNOBSx, also    *)
(* with a NUL byte in them.                                                *)
(***************************************************************************)
\* Status bytes: note-off, note-on on channel 1, control change on channel
\* 2, pitch bend and the one-byte timing clock.
StatusBytes == {128, 145, 178, 224, 248}

\* The second byte: a key for note messages, for control changes the CC
\* numbers of attack and pulseWidth, one that no parameter has, and 123.
MidiData1(c) ==
    IF (c \div 16) * 16 = 176 THEN {74, 81, 1, ALL_NOTES_OFF_CC} ELSE {60}

\* The third byte; 200 is no MIDI data byte, yet a byte that getchar() can
\* return, as is its failure.
MidiData2(c) ==
    IF (c \div 16) * 16 = 176 THEN {0, 64, 127, 200}
    ELSE IF c < 176 THEN {0, 100, PICO_ERROR_TIMEOUT}
    ELSE {0, 100}

\* The text bytes that may follow the line assembled so far.
MidiChars(buffer) ==
    (IF Len(buffer) < Len(SYNC_KNOBS) /\ buffer = SubSeq(SYNC_KNOBS, 1, Len(buffer))
        THEN {SYNC_KNOBS[Len(buffer) + 1]} ELSE {})
    \cup (IF buffer \in {<<>>, SYNC_KNOBS, Append(SYNC_KNOBS, 0)} THEN {120} ELSE {})
    \cup (IF buffer \in {SYNC_KNOBS, <<120>>} THEN {0} ELSE {})

\* getchar_timeout_us(0) finds no byte
MidiTimeout == UpdateStep(PICO_ERROR_TIMEOUT, PICO_ERROR_TIMEOUT, PICO_ERROR_TIMEOUT)

\* a byte with the high bit set, and the two bytes after it
MidiMessage ==
    /\ upd.n < MidiMsgs
    /\ \E c \in StatusBytes :
           \E data1 \in MidiData1(c), data2 \in MidiData2(c) : UpdateStep(c, data1, data2)

\* a text byte
MidiChar ==
    \E c \in MidiChars(lis.ascii_buffer) :
        UpdateStep(c, PICO_ERROR_TIMEOUT, PICO_ERROR_TIMEOUT)

\* '\n' or '\r'
MidiLineEnd ==
    \E c \in LineEnds : UpdateStep(c, PICO_ERROR_TIMEOUT, PICO_ERROR_TIMEOUT)

MidiNext == MidiTimeout \/ MidiMessage \/ MidiChar \/ MidiLineEnd

SpecMidi == ListenerInit /\ [][MidiNext]_vars

(***************************************************************************)
(* SpecLine: the listener fed with lines of any length, with empty lines   *)
(* and with MIDI messages in the middle of a line.                         *)
(***************************************************************************)
LineTimeout == UpdateStep(PICO_ERROR_TIMEOUT, PICO_ERROR_TIMEOUT, PICO_ERROR_TIMEOUT)

\* a note-on, or a control change of attack
LineMessage ==
    /\ upd.n < MidiMsgs
    /\ \E m \in {<<144, 60, 100>>, <<176, 74, 64>>} : UpdateStep(m[1], m[2], m[3])

\* the text byte 'x'
LineChar == UpdateStep(120, PICO_ERROR_TIMEOUT, PICO_ERROR_TIMEOUT)

\* '\n' or '\r'
LineEnd ==
    \E c \in LineEnds : UpdateStep(c, PICO_ERROR_TIMEOUT, PICO_ERROR_TIMEOUT)

LineNext == LineTimeout \/ LineMessage \/ LineChar \/ LineEnd

SpecLine == ListenerInit /\ [][LineNext]_vars

(***************************************************************************)
(* AudioEngine.h: class AudioEngine.  The engine is its module list; a     *)
(* module is a number (the pointer handed to addModule), and the same      *)
(* module may be registered more than once.  AudioModule::process() is     *)
(* pure virtual: the modules here read and rewrite every sample in a way   *)
(* that depends on the module and on what the buffer held, so that a       *)
(* missing clear or another order shows in the buffer.                     *)
(***************************************************************************)
\* AudioEngine(channels, frames)
AudioEngine == [modules |-> <<>>]

\* void addModule(AudioModule* module)
addModule(e, module) == [e EXCEPT !.modules = Append(e.modules, module)]

\* bufferToFill.clear() left out
clearNothing(buffer) == buffer

\* bufferToFill.clear()
clear(buffer) == [i \in DOMAIN buffer |-> 0]

\* module->process(bufferToFill): module m mixes its own signal into the buffer
ModuleProcess(module, buffer) ==
    [i \in DOMAIN buffer |-> (2 * buffer[i] + module + i) % 16]

\* for (auto module : modules) module->process(bufferToFill);
\* run is [buffer, calls]: the buffer so far and, per call made, the module
\* and the buffer as it found it.
RECURSIVE ProcessModules(_, _, _)
ProcessModules(modules, i, run) ==
    IF i > Len(modules) THEN run
    ELSE ProcessModules(modules, i + 1,
             [buffer |-> ModuleProcess(modules[i], run.buffer),
              calls  |-> Append(run.calls, [module |-> modules[i], found |-> run.buffer])])

\* void processNextBlock(InterleavedView<fix15>& bufferToFill)
processNextBlock(e, bufferToFill) ==
    LET run == ProcessModules(e.modules, 1, [buffer |-> clear(bufferToFill), calls |-> <<>>])
    IN  [engine |-> e, buffer |-> run.buffer, calls |-> run.calls]

(***************************************************************************)
(* SpecEngine: modules are registered and blocks are processed in any      *)
(* order; the buffer handed to processNextBlock holds whatever the driver  *)
(* left in it.  blk keeps the last call: the buffer and the module list it *)
(* was given, the calls of process() it made, and what it left behind.     *)
(***************************************************************************)
ModuleIds == 1..MaxModules
EngineBuffers == [1..EngineFrames -> {0, 5}]

EngineInit ==
    /\ engine = AudioEngine
    /\ blk = [n |-> 0, given |-> <<>>, before |-> <<>>, calls |-> <<>>,
              buffer |-> <<>>, after |-> <<>>]
    /\ out = <<>> /\ outh = <<>> /\ filt = <<>> /\ gain = <<>> /\ gainh = <<>>
    /\ DspIdle /\ SmIdle /\ EnvIdle /\ VoiceIdle /\ FifoIdle

EngineAddModule ==
    /\ Len(engine.modules) < MaxModules
    /\ \E module \in ModuleIds : engine' = addModule(engine, module)
    /\ UNCHANGED <<blk, out, outh, filt, gain, gainh, dspVars, smVars, envVars, voiceVars, fifoVars>>

EngineProcessNextBlock ==
    /\ blk.n < MaxBlocks
    /\ \E bufferToFill \in EngineBuffers :
       \E r \in {processNextBlock(engine, bufferToFill)} :
           /\ engine' = r.engine
           /\ blk' = [n |-> blk.n + 1, given |-> bufferToFill, before |-> engine.modules,
                      calls |-> r.calls, buffer |-> r.buffer, after |-> r.engine.modules]
    /\ UNCHANGED <<out, outh, filt, gain, gainh, dspVars, smVars, envVars, voiceVars, fifoVars>>

EngineNext == EngineAddModule \/ EngineProcessNextBlock

SpecEngine == EngineInit /\ [][EngineNext]_vars


(***************************************************************************)
(* I2sAudioOutput.h, PwmAudioOutput.h: the double-buffered output drivers. *)
(* The two classes differ in start() and in the sample format; the main    *)
(* loop, fillAndConvertNextBuffer() and dma_irh() are the same.  The       *)
(* engine's blocks are numbered 1, 2, 3, ... in the order processNextBlock *)
(* produces them; a hardware buffer holds the number of the block          *)
(* converted into it (0: never written).  dma is the index of the buffer   *)
(* the DMA channel is transferring (NoTransfer before the first trigger).  *)
(***************************************************************************)
NoTransfer == 2

\* The state the constructors leave behind.
AudioOutput ==
    [ dma_buffer_to_fill_idx |-> 0,
      audio_buffers          |-> [i \in 0..1 |-> 0],
      workspace              |-> 0,      \* dsp_fix15_buffer / dsp_float_buffer
      blocks                 |-> 0,      \* processNextBlock() calls so far
      hardware_buffer        |-> 0,      \* fillAndConvertNextBuffer's local
      last_processed_idx     |-> 0,      \* start()'s local
      dma                    |-> NoTransfer ]

\* audioEngine.processNextBlock(float_workspace_view)
FillEngine(o) == [o EXCEPT !.blocks = o.blocks + 1, !.workspace = o.blocks + 1]

\* hardware_buffer = audio_buffers[dma_buffer_to_fill_idx]
FillSelect(o) == [o EXCEPT !.hardware_buffer = o.dma_buffer_to_fill_idx]

\* the conversion loop: hardware_buffer[i] = ... for every i
FillCopy(o) == [o EXCEPT !.audio_buffers[o.hardware_buffer] = o.workspace]

\* void fillAndConvertNextBuffer(), run without interruption
fillAndConvertNextBuffer(o) == FillCopy(FillSelect(FillEngine(o)))

\* The DMA channel is pointed at audio_buffers[i] and triggered.
DmaTrigger(o, i) == [o EXCEPT !.dma = i]

\* void dma_irh()
dma_irh(o) ==
    [DmaTrigger(o, o.dma_buffer_to_fill_idx)
        EXCEPT !.dma_buffer_to_fill_idx = 1 - o.dma_buffer_to_fill_idx]

\* I2sAudioOutput::start() with the first transfer from audio_buffers[0]
I2sStartFromZero(o) ==
    LET a == fillAndConvertNextBuffer([o EXCEPT !.dma_buffer_to_fill_idx = 1])
        b == fillAndConvertNextBuffer([a EXCEPT !.dma_buffer_to_fill_idx = 0])
    IN  DmaTrigger(b, 0)

\* I2sAudioOutput::start() up to the main loop
I2sStart(o) ==
    LET a == fillAndConvertNextBuffer([o EXCEPT !.dma_buffer_to_fill_idx = 1])
        b == fillAndConvertNextBuffer([a EXCEPT !.dma_buffer_to_fill_idx = 0])
    IN  DmaTrigger(b, 1)

\* PwmAudioOutput::start() up to the main loop
PwmStart(o) ==
    LET a == fillAndConvertNextBuffer(o)
        b == fillAndConvertNextBuffer([a EXCEPT !.dma_buffer_to_fill_idx = 1])
    IN  DmaTrigger([b EXCEPT !.dma_buffer_to_fill_idx = 0], 0)

(***************************************************************************)
(* SpecI2s, SpecPwm: core 1 runs start() and then the main loop one        *)
(* statement at a time (out.pc); the buffer-complete interrupt preempts    *)
(* the loop between any two statements and runs dma_irh() to its end.      *)
(* Nothing constrains when a transfer completes, so a fill may be too      *)
(* late.  outh keeps: handed, the blocks handed to the DMA in order;       *)
(* writes, for every fill of the main loop the buffer it wrote, the buffer *)
(* that finished playing last, the buffer the DMA was transferring and the *)
(* number of interrupts taken so far; irqs, that number; finished, the     *)
(* buffer whose transfer completed last; late, whether some interrupt      *)
(* found the loop anywhere but spinning in its wait (it was still filling, *)
(* or had not yet started the fill the interrupt before asked for, or had  *)
(* not yet read the index it then waits on).                               *)
(***************************************************************************)
OutInit(driver) ==
    /\ out = [driver |-> driver, pc |-> "start", o |-> AudioOutput]
    /\ outh = [handed |-> <<>>, writes |-> <<>>, irqs |-> 0,
               finished |-> NoTransfer, late |-> FALSE]
    /\ engine = <<>> /\ blk = <<>> /\ filt = <<>> /\ gain = <<>> /\ gainh = <<>>
    /\ DspIdle /\ SmIdle /\ EnvIdle /\ VoiceIdle /\ FifoIdle

OutUnchanged ==
    UNCHANGED <<engine, blk, filt, gain, gainh, dspVars, smVars, envVars, voiceVars, fifoVars>>

\* start() up to the main loop; no transfer is under way, so no interrupt
\* can be taken.
OutStart ==
    /\ out.pc = "start"
    /\ \E s \in {IF out.driver = "I2s" THEN I2sStart(out.o) ELSE PwmStart(out.o)} :
           /\ out' = [out EXCEPT !.pc = "read", !.o = s]
           /\ outh' = [outh EXCEPT !.handed = <<s.audio_buffers[s.dma]>>]
    /\ OutUnchanged

\* int last_processed_idx = dma_buffer_to_fill_idx;
OutRead ==
    /\ out.pc = "read"
    /\ out' = [out EXCEPT !.pc = "wait",
                          !.o.last_processed_idx = out.o.dma_buffer_to_fill_idx]
    /\ UNCHANGED outh
    /\ OutUnchanged

\* while (last_processed_idx == dma_buffer_to_fill_idx) tight_loop_contents();
OutWait ==
    /\ out.pc = "wait"
    /\ out.o.last_processed_idx # out.o.dma_buffer_to_fill_idx
    /\ out' = [out EXCEPT !.pc = "engine"]
    /\ UNCHANGED outh
    /\ OutUnchanged

\* fillAndConvertNextBuffer(): processNextBlock
OutEngine ==
    /\ out.pc = "engine"
    /\ out' = [out EXCEPT !.pc = "select", !.o = FillEngine(out.o)]
    /\ UNCHANGED outh
    /\ OutUnchanged

\* fillAndConvertNextBuffer(): the hardware buffer is chosen
OutSelect ==
    /\ out.pc = "select"
    /\ out' = [out EXCEPT !.pc = "copy", !.o = FillSelect(out.o)]
    /\ UNCHANGED outh
    /\ OutUnchanged

\* fillAndConvertNextBuffer(): the conversion loop
OutCopy ==
    /\ out.pc = "copy"
    /\ out' = [out EXCEPT !.pc = "read", !.o = FillCopy(out.o)]
    /\ outh' = [outh EXCEPT !.writes =
                   Append(outh.writes, [buffer |-> out.o.hardware_buffer,
                                        finished |-> outh.finished,
                                        dma |-> out.o.dma,
                                        irqs |-> outh.irqs])]
    /\ OutUnchanged

\* The transfer under way completes and the interrupt handler runs.
OutIrq ==
    /\ out.o.dma # NoTransfer
    /\ outh.irqs < MaxIrqs
    /\ out' = [out EXCEPT !.o = dma_irh(out.o)]
    /\ outh' = [outh EXCEPT
                   !.handed = Append(outh.handed,
                                     out.o.audio_buffers[out.o.dma_buffer_to_fill_idx]),
                   !.irqs = outh.irqs + 1,
                   !.finished = out.o.dma,
                   !.late = \/ outh.late
                            \/ out.pc # "wait"
                            \/ out.o.last_processed_idx # out.o.dma_buffer_to_fill_idx]
    /\ OutUnchanged

OutNext ==
    OutStart \/ OutRead \/ OutWait \/ OutEngine \/ OutSelect \/ OutCopy \/ OutIrq

I2sInit == OutInit("I2s")
PwmInit == OutInit("Pwm")

SpecI2s == I2sInit /\ [][OutNext]_vars
SpecPwm == PwmInit /\ [][OutNext]_vars


(***************************************************************************)
(* FilterModule.h: FilterModule::process, and SimpleFixedOscModule.h:      *)
(* VoiceFilter::process: the four-pole ladder filter.  A filter is its     *)
(* four stages (one channel of FilterModule; the channels share g and res  *)
(* and nothing else).  A step returns the stages, the output and `terms',  *)
(* every value the code computes in a fix15 on the way.                    *)
(***************************************************************************)
STAGE4_LIMIT == 262144      \* 8.0
OUTPUT_LIMIT == 524288      \* 16.0

LadderFilter == [stage1 |-> 0, stage2 |-> 0, stage3 |-> 0, stage4 |-> 0]

\* fix15 g = multfix15(cutoff, 27787) + 33
LadderG(cutoff) == multfix15(cutoff, 27787) + 33

\* the clamp of stage4 left out
LimitStage4Not(stage4) == stage4

\* if (stage4[ch] > 262144) stage4[ch] = 262144; else if (... < -262144) ...
LimitStage4(stage4) ==
    IF stage4 > STAGE4_LIMIT THEN STAGE4_LIMIT
    ELSE IF stage4 < -STAGE4_LIMIT THEN -STAGE4_LIMIT ELSE stage4

\* The four stages, each stage += multfix15(g, input - stage).
LadderStages(f, g, fb_input) ==
    LET s1 == f.stage1 + multfix15(g, fb_input - f.stage1)
        s2 == f.stage2 + multfix15(g, s1 - f.stage2)
        s3 == f.stage3 + multfix15(g, s2 - f.stage3)
        s4 == f.stage4 + multfix15(g, s3 - f.stage4)
    IN  [ stage1 |-> s1, stage2 |-> s2, stage3 |-> s3, stage4 |-> s4,
          terms |-> { fb_input - f.stage1, multfix15(g, fb_input - f.stage1), s1,
                      s1 - f.stage2, multfix15(g, s1 - f.stage2), s2,
                      s2 - f.stage3, multfix15(g, s2 - f.stage3), s3,
                      s3 - f.stage4, multfix15(g, s3 - f.stage4), s4 } ]

\* FilterModule::process, one sample of one channel
FilterModuleProcess(f, input, cutoff_param, resonance_param) ==
    LET g   == LadderG(cutoff_param)
        res == multfix15(resonance_param, 127795)
        fb0 == input - multfix15(res, f.stage4)
        fb_input == IF fb0 > 524288 THEN 524288
                    ELSE IF fb0 < -524288 THEN -524288 ELSE fb0
        l   == LadderStages(f, g, fb_input)
        stage4 == LimitStage4(l.stage4)
        out0 == multfix15(stage4, 81920)
        output == IF out0 > OUTPUT_LIMIT THEN OUTPUT_LIMIT
                  ELSE IF out0 < -OUTPUT_LIMIT THEN -OUTPUT_LIMIT ELSE out0
    IN  [ f |-> [stage1 |-> l.stage1, stage2 |-> l.stage2, stage3 |-> l.stage3,
                 stage4 |-> stage4],
          output |-> output,
          terms |-> l.terms \cup {g, res, multfix15(res, f.stage4), fb0, out0} ]

\* VoiceFilter::process; x >> k is x \div 2^k
VoiceFilterProcess(f, input, cutoff, resonance) ==
    LET g   == LadderG(cutoff)
        res == multfix15(resonance, 147456)
        fb0 == input - multfix15(res, f.stage4)
        fb_input == IF fb0 > FIX15_ONE THEN FIX15_ONE
                    ELSE IF fb0 < -FIX15_ONE THEN -FIX15_ONE ELSE fb0
        l   == LadderStages(f, g, fb_input)
        o1  == l.stage4 + (l.stage4 \div 2)
        o2  == o1 + (o1 \div 4)
        o3  == o2 + (o2 \div 8)
    IN  [ f |-> [stage1 |-> l.stage1, stage2 |-> l.stage2, stage3 |-> l.stage3,
                 stage4 |-> l.stage4],
          output |-> o3,
          terms |-> l.terms \cup {g, res, multfix15(res, f.stage4), fb0, o1, o2} ]

(***************************************************************************)
(* SpecFilter: one filter of either class, from its constructor.  It first *)
(* processes any number of samples of ResonantDrive, a sequence of         *)
(* <<input, cutoff, resonance>> at full resonance that builds up the       *)
(* largest swings, and then up to MaxSamples samples with every input,     *)
(* cutoff and resonance of FilterInputs, FilterCutoffs, FilterResonances.  *)
(* filt keeps the filter, the last call's arguments, output and terms, and *)
(* the number of driven and of free samples so far.                        *)
(***************************************************************************)
ResonantDrive ==
    << <<-32768, 32768, 0>>,     <<32768, 0, 32768>>,      <<32768, 32768, 32768>>,
       <<-32768, 32768, 32768>>, <<0, 16384, 32768>>,      <<0, 32768, 32768>>,
       <<32768, 32768, 32768>>,  <<32768, 16384, 0>>,      <<32768, 16384, 32768>>,
       <<-32768, 16384, 32768>>, <<32768, 32768, 32768>> >>

FilterInputs == {-FIX15_ONE, 0, FIX15_ONE}
FilterCutoffs == {0, 16384, FIX15_ONE}
FilterResonances == {0, FIX15_ONE}

FilterInit ==
    /\ \E which \in {"FilterModule", "VoiceFilter"} :
           filt = [which |-> which, f |-> LadderFilter, args |-> <<>>, output |-> 0,
                   terms |-> {}, driven |-> 0, free |-> 0]
    /\ engine = <<>> /\ blk = <<>> /\ out = <<>> /\ outh = <<>>
    /\ gain = <<>> /\ gainh = <<>>
    /\ DspIdle /\ SmIdle /\ EnvIdle /\ VoiceIdle /\ FifoIdle

FilterStep(args, driven, free) ==
    /\ \E r \in {IF filt.which = "FilterModule"
                    THEN FilterModuleProcess(filt.f, args[1], args[2], args[3])
                    ELSE VoiceFilterProcess(filt.f, args[1], args[2], args[3])} :
           filt' = [filt EXCEPT !.f = r.f, !.args = args, !.output = r.output,
                                !.terms = r.terms, !.driven = driven, !.free = free]
    /\ UNCHANGED <<engine, blk, out, outh, gain, gainh,
                   dspVars, smVars, envVars, voiceVars, fifoVars>>

\* The next sample of ResonantDrive
FilterDrive ==
    /\ filt.free = 0
    /\ filt.driven < Len(ResonantDrive)
    /\ FilterStep(ResonantDrive[filt.driven + 1], filt.driven + 1, 0)

\* One sample with any input, cutoff and resonance
FilterProcess ==
    /\ filt.free < MaxSamples
    /\ \E input \in FilterInputs, cutoff \in FilterCutoffs, resonance \in FilterResonances :
           FilterStep(<<input, cutoff, resonance>>, filt.driven, filt.free + 1)

FilterNext == FilterDrive \/ FilterProcess

SpecFilter == FilterInit /\ [][FilterNext]_vars


(***************************************************************************)
(* GainModule.h: the master volume applied to a block                      *)
(***************************************************************************)
MASTER_VOL_CC == 75

\* The "masterVol" entry of g_synth_parameters, found by the constructor.
MasterVol ==
    Parameter("masterVol", "Master Volume", F32Zero, F32One, F32Decimal(5, 100),
              MASTER_VOL_CC)

\* (fix15)(vol * 32768.0f) for 0 <= vol <= 1: the product is exact and the
\* conversion drops the fraction.
GainOf(vol) ==
    LET k == -(vol.e + 15)
    IN  IF vol.m = 0 THEN 0
        ELSE IF k <= 0 THEN vol.m * 2^(-k)
        ELSE IF k > 24 THEN 0
        ELSE vol.m \div 2^k

\* void process(buffer): the samples written and the gain each frame got.
\* Clearing the buffer counts as a gain of 0.
GainModuleProcess(p_master_vol, buffer) ==
    LET vol  == ParamGetValue(p_master_vol)
        gain0 == GainOf(vol)
    IN  IF vol = F32Zero
            THEN [buffer  |-> [frame \in DOMAIN buffer |-> 0],
                  applied |-> [frame \in DOMAIN buffer |-> 0]]
            ELSE [buffer  |-> [frame \in DOMAIN buffer |-> multfix15(buffer[frame], gain0)],
                  applied |-> [frame \in DOMAIN buffer |-> gain0]]

(***************************************************************************)
(* SpecGain: blocks processed by GainModule while control changes move     *)
(* masterVol.  gainh keeps the gains of the block before and of the last   *)
(* block.                                                                  *)
(***************************************************************************)
GainBuffers == [1..GainFrames -> {-32768, 16384}]

\* Controller values: silence, the two ends, the smallest step and the middle.
GainCcValues == {0, 1, 64, 126, CC_FULL_SCALE}

GainInit ==
    /\ gain = [p_master_vol |-> MasterVol, buffer |-> <<>>]
    /\ gainh = [blocks |-> 0, ccs |-> 0, before |-> <<>>, applied |-> <<>>,
                given |-> <<>>]
    /\ engine = <<>> /\ blk = <<>> /\ out = <<>> /\ outh = <<>> /\ filt = <<>>
    /\ DspIdle /\ SmIdle /\ EnvIdle /\ VoiceIdle /\ FifoIdle

\* A control change for masterVol arrives between two blocks.
GainControlChange ==
    /\ gainh.ccs < MaxCcs
    /\ \E data2 \in GainCcValues :
         \E h \in {HandleControlChange(<<gain.p_master_vol>>, MASTER_VOL_CC, data2)} :
           gain' = [gain EXCEPT !.p_master_vol = h.params[1]]
    /\ gainh' = [gainh EXCEPT !.ccs = gainh.ccs + 1]
    /\ UNCHANGED <<engine, blk, out, outh, filt,
                   dspVars, smVars, envVars, voiceVars, fifoVars>>

GainProcess ==
    /\ gainh.blocks < MaxGainBlocks
    /\ \E buffer \in GainBuffers :
         \E r \in {GainModuleProcess(gain.p_master_vol, buffer)} :
           /\ gain' = [gain EXCEPT !.buffer = r.buffer]
           /\ gainh' = [gainh EXCEPT !.blocks = gainh.blocks + 1,
                                     !.before = gainh.applied,
                                     !.applied = r.applied,
                                     !.given = buffer]
    /\ UNCHANGED <<engine, blk, out, outh, filt,
                   dspVars, smVars, envVars, voiceVars, fifoVars>>

GainNext == GainControlChange \/ GainProcess

SpecGain == GainInit /\ [][GainNext]_vars


(***************************************************************************)
(* I2sAudioOutput.h: the conversion of a fix15 frame to one I2S word.  A   *)
(* uint32_t is written as the int32 with the same bits.                    *)
(***************************************************************************)
\* int16_t s = x for a 32-bit x: the low 16 bits, read as two's complement.
ToInt16(x) == ((x + 32768) % 65536) - 32768

\* (uint16_t)s
ToUint16(s) == s % 65536

\* hardware_buffer[i] = (uint32_t)((uint16_t)sample_r_s16) << 16 | (uint16_t)sample_l_s16
I2sWord(sample_l, sample_r) ==
    ToInt16(ToInt16(sample_r)) * 65536 + ToUint16(ToInt16(sample_l))

\* The 16-bit signed samples the codec plays from one word: bits 15..0 and
\* bits 31..16.
WordLeft(word) == ToInt16(word % 65536)
WordRight(word) == word \div 65536

(***************************************************************************)
(* SpecWire: one frame of the workspace converted by the loop of           *)
(* fillAndConvertNextBuffer().                                             *)
(***************************************************************************)
\* fix15 samples around 0, around +-1.0 and beyond.
WireInputs ==
    {-98304, -65536, -32769, -32768, -32767, -16384, -1, 0,
     1, 16384, 32767, 32768, 32769, 65535, 65536, 98304}

WireInit ==
    /\ \E l \in WireInputs, r \in WireInputs :
           wire = [sample_l |-> l, sample_r |-> r, converted |-> FALSE, word |-> 0]
    /\ osc = <<>>
    /\ engine = <<>> /\ blk = <<>> /\ out = <<>> /\ outh = <<>> /\ filt = <<>>
    /\ gain = <<>> /\ gainh = <<>>
    /\ SmIdle /\ EnvIdle /\ VoiceIdle /\ FifoIdle

WireConvert ==
    /\ ~wire.converted
    /\ wire' = [wire EXCEPT !.converted = TRUE,
                            !.word = I2sWord(wire.sample_l, wire.sample_r)]
    /\ UNCHANGED <<osc, engine, blk, out, outh, filt, gain, gainh,
                   smVars, envVars, voiceVars, fifoVars>>

WireNext == WireConvert

SpecWire == WireInit /\ [][WireNext]_vars


(***************************************************************************)
(* The two cores together.  The control core runs                          *)
(* MidiSerialListener::handleMidiMessage; the audio core runs              *)
(* SimpleFixedOscModule::process (updateControlSignals, then the frames)   *)
(* and GainModule::process.  They share g_synth_parameters and the FIFO.   *)
(***************************************************************************)
\* float2fix15(a) = (fix15)(a * 32768.0) for 0 <= a <= 1
float2fix15(a) == GainOf(a)

\* (uint32_t)(std::max(0.001f, seconds) * sampleRate), in float arithmetic
TimeSamplesOf(sampleRate, seconds) ==
    LET x == F32Mul(F32Max(F32Decimal(1, 1000), seconds), F32FromInt(sampleRate))
        k == -x.e
    IN  IF x.m = 0 THEN 0
        ELSE IF k <= 0 THEN x.m * 2^(-k)
        ELSE IF k > 24 THEN 0
        ELSE x.m \div 2^k

\* newSustainLevel of setSustainLevel(level)
SustainLevelOf(level) ==
    LET sustainLevelFloat == F32Max(F32Zero, F32Min(F32One, level))
    IN  IF sustainLevelFloat = F32Zero THEN FIX15_ZERO ELSE float2fix15(sustainLevelFloat)

\* The value of the parameter the constructor found under `id'.
StoreValue(ps, id) ==
    ParamGetValue(ps[CHOOSE i \in DOMAIN ps : ps[i].parameterID = id])

\* The second half of updateControlSignals(): every voice's envelope is given
\* the four envelope parameters of the store.
UpdateEnvelopeParameters(vs, ps, sampleRate) ==
    LET attackSamples   == TimeSamplesOf(sampleRate, StoreValue(ps, "attack"))
        decaySamples    == TimeSamplesOf(sampleRate, StoreValue(ps, "decay"))
        sustain         == SustainLevelOf(StoreValue(ps, "sustain"))
        releaseSamples  == TimeSamplesOf(sampleRate, StoreValue(ps, "release"))
    IN  [i \in DOMAIN vs |->
            [vs[i] EXCEPT !.envelope =
                EnvSetReleaseTime(
                    EnvSetSustainLevel(
                        EnvSetDecayTime(
                            EnvSetAttackTime(@, attackSamples),
                            decaySamples),
                        sustain),
                    releaseSamples)]]

\* The bank whose envelopes rest on the values of the store.
BankFromStore(ps, sampleRate) ==
    SimpleFixedOscModule(sampleRate,
                         TimeSamplesOf(sampleRate, StoreValue(ps, "attack")),
                         TimeSamplesOf(sampleRate, StoreValue(ps, "decay")),
                         SustainLevelOf(StoreValue(ps, "sustain")),
                         TimeSamplesOf(sampleRate, StoreValue(ps, "release")))

\* A handleMidiMessage() that hands a note event to the voices itself.
CoreHandleDirect(ps, vs, q, status, data1, data2) ==
    LET h == HandleMidiMessage(ps, status, data1, data2)
    IN  [params |-> h.params,
         voices |-> IF h.packets = <<>> THEN vs ELSE DispatchPacket(vs, h.packets[1]),
         fifo   |-> q,
         ready  |-> TRUE]

\* What handleMidiMessage(status, data1, data2) does to the state the cores
\* share and to the voices: it writes parameters and pushes packets; `ready'
\* tells whether the FIFO has room for the push.
CoreHandle(ps, vs, q, status, data1, data2) ==
    LET h == HandleMidiMessage(ps, status, data1, data2)
    IN  [params |-> h.params,
         voices |-> vs,
         fifo   |-> IF h.packets = <<>> THEN q
                    ELSE multicore_fifo_push_blocking(q, h.packets[1]).queue,
         ready  |-> h.packets = <<>> \/ multicore_fifo_push_blocking(q, h.packets[1]).ready]

(***************************************************************************)
(* SpecCores: the control core handles MIDI messages while the audio core  *)
(* processes blocks.  upd counts the messages handled, popped keeps the    *)
(* packets taken from the FIFO, gain the gain of the last block.           *)
(***************************************************************************)
\* Note on and off for one key, all notes off, sustain and master volume.
CoreMessages ==
    { <<144, 60, 100>>, <<128, 60, 0>>, <<176, 123, 0>>,
      <<176, 73, 0>>, <<176, 73, 127>>, <<176, 75, 64>> }

CoresInit ==
    /\ params = initialize_parameters
    /\ voices = BankFromStore(initialize_parameters, SAMPLE_RATE)
    /\ vh = <<>>
    /\ fifo = <<>> /\ cons = "drain" /\ pushed = <<>> /\ popped = <<>>
    /\ lis = <<>>
    /\ upd = [n |-> 0, blocks |-> 0, message |-> <<>>]
    /\ gain = [applied |-> 0]
    /\ gainh = <<>>
    /\ engine = <<>> /\ blk = <<>> /\ out = <<>> /\ outh = <<>> /\ filt = <<>>
    /\ DspIdle /\ SmIdle /\ EnvIdle

\* Core 0: handleMidiMessage(status, data1, data2)
CoresHandleMidiMessage ==
    /\ upd.n < MaxCoreMsgs
    /\ \E msg \in CoreMessages :
         \E c \in {CoreHandle(params, voices, fifo, msg[1], msg[2], msg[3])} :
           /\ c.ready
           /\ params' = c.params
           /\ voices' = c.voices
           /\ fifo' = c.fifo
           /\ pushed' = IF c.fifo = fifo THEN pushed ELSE Append(pushed, c.fifo[Len(c.fifo)])
           /\ upd' = [upd EXCEPT !.n = upd.n + 1, !.message = msg]
    /\ UNCHANGED <<cons, popped, vh, lis, gain, gainh,
                   engine, blk, out, outh, filt, dspVars, smVars, envVars>>

\* Core 1: one turn of the drain loop of updateControlSignals()
CoresDrainPop ==
    /\ cons = "drain"
    /\ upd.blocks < MaxCoreBlocks
    /\ multicore_fifo_rvalid(fifo)
    /\ fifo' = Tail(fifo)
    /\ popped' = Append(popped, Head(fifo))
    /\ voices' = DispatchPacket(voices, Head(fifo))
    /\ UNCHANGED <<cons, pushed, params, upd, vh, lis, gain, gainh,
                   engine, blk, out, outh, filt, dspVars, smVars, envVars>>

\* Core 1: the FIFO is empty; the envelope parameters are read from the store.
CoresUpdateParameters ==
    /\ cons = "drain"
    /\ upd.blocks < MaxCoreBlocks
    /\ ~multicore_fifo_rvalid(fifo)
    /\ cons' = "render"
    /\ voices' = UpdateEnvelopeParameters(voices, params, SAMPLE_RATE)
    /\ UNCHANGED <<fifo, pushed, popped, params, upd, vh, lis, gain, gainh,
                   engine, blk, out, outh, filt, dspVars, smVars, envVars>>

\* Core 1: the frames of the block, then GainModule::process on the block.
CoresRenderBlock ==
    /\ cons = "render"
    /\ voices' = RenderFrames(voices, BUFFER_SIZE)
    /\ gain' = [applied |->
                   GainModuleProcess(params[CHOOSE i \in DOMAIN params :
                                               params[i].parameterID = "masterVol"],
                                     <<FIX15_ONE>>).applied[1]]
    /\ cons' = "drain"
    /\ upd' = [upd EXCEPT !.blocks = upd.blocks + 1]
    /\ UNCHANGED <<fifo, pushed, popped, params, vh, lis, gainh,
                   engine, blk, out, outh, filt, dspVars, smVars, envVars>>

CoresNext ==
    \/ CoresHandleMidiMessage
    \/ CoresDrainPop
    \/ CoresUpdateParameters
    \/ CoresRenderBlock

SpecCores == CoresInit /\ [][CoresNext]_vars


(***************************************************************************)
(* SpecBank: the voice bank on the audio core, block by block.  Every      *)
(* block is updateControlSignals() (the note-ons popped, then the envelope *)
(* parameters read from the store) and BankFrames frames.  The keys 60,    *)
(* 61, ... are pressed one after the other and held; control changes move  *)
(* the sustain parameter.  Attack, decay and release stand at their        *)
(* minimum.  vh is the history of SpecVoice, upd counts the control        *)
(* changes and names the half of the output buffer the block goes to.      *)
(***************************************************************************)
SUSTAIN_CC == 73

\* g_synth_parameters with the attack, decay and release knobs turned to 0.
BankStore ==
    HandleControlChange(
        HandleControlChange(
            HandleControlChange(initialize_parameters, 74, 0).params,
            71, 0).params,
        72, 0).params

BankSustainValues == {0, 64, CC_FULL_SCALE}

BankInit ==
    /\ params = BankStore
    /\ voices = BankFromStore(BankStore, LowRate)
    /\ vh = VoiceHistory0
    /\ upd = [n |-> 0, buffer |-> 0]
    /\ fifo = <<>> /\ cons = "render" /\ pushed = <<>> /\ popped = <<>>
    /\ lis = <<>>
    /\ IoIdle /\ SmIdle /\ EnvIdle

\* The drain loop pops the note-on for the next key: handleNoteOn(note, velocity)
BankNoteOn == NoteOnEvent(NUM_VOICES + 1, {60 + vh.n})

\* The control core handles a control change for the sustain parameter.
BankSustain ==
    /\ upd.n < MaxSustainCcs
    /\ \E data2 \in BankSustainValues :
           params' = HandleControlChange(params, SUSTAIN_CC, data2).params
    /\ upd' = [upd EXCEPT !.n = upd.n + 1]
    /\ UNCHANGED <<ioVars, smVars, envVars, voiceVars, fifo, cons, pushed, popped, lis>>

\* The rest of updateControlSignals() and the frames of the block.
BankBlock ==
    /\ voices' = RenderFrames(UpdateEnvelopeParameters(voices, params, LowRate), BankFrames)
    /\ vh' = [vh EXCEPT !.pre = <<>>, !.since = Min(vh.since + 1, 1)]
    /\ upd' = [upd EXCEPT !.buffer = 1 - @]
    /\ UNCHANGED <<ioVars, smVars, envVars, params, fifo, cons, pushed, popped, lis>>

BankNext == BankNoteOn \/ BankSustain \/ BankBlock

SpecBank == BankInit /\ [][BankNext]_vars

\* A block is handed over and the next one goes to the other half of the
\* buffer: the steps of BankBlock, which is always enabled.
BankBlockDone == upd' = [upd EXCEPT !.buffer = 1 - @]

\* The audio core keeps processing blocks.
SpecBankLive == SpecBank /\ WF_upd(BankBlockDone)


(***************************************************************************)
(* Fix15Oscillators.h: the phase accumulator and the saw built on it       *)
(***************************************************************************)
TABLE_SIZE == 1024
tableWrapLimit == int2fix15(TABLE_SIZE)

\* fix152float(a) for a fix15 value that is a whole number
fix152float(a) == F32FromInt(a \div FIX15_ONE)

\* void Phase::setFrequency(frequency, sampleRate, wrapLimit): the increment.
\* The quotient is rounded to float when it is stored in incrementFloat.
PhaseSetFrequency(frequency, sampleRate, wrapLimit) ==
    float2fix15(F32Div(F32Mul(frequency, fix152float(wrapLimit)), sampleRate))

\* A next() that wraps only above the limit.
PhaseNextWrapAbove(p, wrapLimit) ==
    LET advanced == p.phase + p.increment
    IN  [phase     |-> IF advanced > wrapLimit THEN advanced - wrapLimit ELSE advanced,
         increment |-> p.increment,
         returned  |-> p.phase]

\* fix15 Phase::next(wrapLimit): the accumulator after the call and the value returned
PhaseNext(p, wrapLimit) ==
    LET advanced == p.phase + p.increment
    IN  [phase     |-> IF advanced >= wrapLimit THEN advanced - wrapLimit ELSE advanced,
         increment |-> p.increment,
         returned  |-> p.phase]

\* fix15 Saw::getSample(), from the phase next() returned
SawSample(p) == (p * 2) - FIX15_ONE

(***************************************************************************)
(* SpecPhase: the phase accumulator of one oscillator, a saw (wrap limit   *)
(* FIX15_ONE) or a sine (wrap limit tableWrapLimit).  A note-on resets the *)
(* phase and sets the frequency, as Voice::noteOn does; every sample calls *)
(* next().  osc keeps the accumulator, the last operation, the phase it    *)
(* found, what next() returned, the saw sample made of it and the number   *)
(* of samples since the note-on.                                           *)
(***************************************************************************)
\* Frequencies in Hz, from 0 to the sample rate.
PhaseFrequencies == {0, 440, 11025, 22050, SAMPLE_RATE}

PhaseInit ==
    /\ \E w \in {FIX15_ONE, tableWrapLimit} :
           osc = [wrapLimit |-> w, phase |-> FIX15_ZERO, increment |-> FIX15_ZERO,
                  op |-> "constructor", before |-> 0, returned |-> 0, sample |-> 0,
                  calls |-> 0]
    /\ wire = <<>>
    /\ engine = <<>> /\ blk = <<>> /\ out = <<>> /\ outh = <<>> /\ filt = <<>>
    /\ gain = <<>> /\ gainh = <<>>
    /\ SmIdle /\ EnvIdle /\ VoiceIdle /\ FifoIdle

PhaseUnchanged ==
    UNCHANGED <<wire, engine, blk, out, outh, filt, gain, gainh,
                smVars, envVars, voiceVars, fifoVars>>

\* Voice::noteOn: resetPhase(), then setFrequency(freq, sample_rate)
PhaseNoteOn ==
    /\ \E f \in PhaseFrequencies :
           osc' = [osc EXCEPT !.phase = FIX15_ZERO,
                              !.increment = PhaseSetFrequency(F32FromInt(f),
                                                F32FromInt(SAMPLE_RATE), osc.wrapLimit),
                              !.op = "noteOn", !.before = osc.phase, !.calls = 0]
    /\ PhaseUnchanged

\* Saw::getSample()
SawGetSample ==
    /\ osc.wrapLimit = FIX15_ONE
    /\ osc.calls < MaxPhaseCalls
    /\ \E n \in {PhaseNext(osc, FIX15_ONE)} :
           osc' = [osc EXCEPT !.phase = n.phase, !.returned = n.returned,
                              !.sample = SawSample(n.returned),
                              !.op = "next", !.before = osc.phase,
                              !.calls = osc.calls + 1]
    /\ PhaseUnchanged

\* The phase.next(tableWrapLimit) of Sine::getSample()
SinePhaseNext ==
    /\ osc.wrapLimit = tableWrapLimit
    /\ osc.calls < MaxPhaseCalls
    /\ \E n \in {PhaseNext(osc, tableWrapLimit)} :
           osc' = [osc EXCEPT !.phase = n.phase, !.returned = n.returned,
                              !.op = "next", !.before = osc.phase,
                              !.calls = osc.calls + 1]
    /\ PhaseUnchanged

PhaseStepNext == PhaseNoteOn \/ SawGetSample \/ SinePhaseNext

SpecPhase == PhaseInit /\ [][PhaseStepNext]_vars


(***************************************************************************)
(* Claims about the inter-core FIFO (SpecFifo)                             *)
(***************************************************************************)
\* C1: the packets popped so far, followed by those still in the FIFO, are
\* exactly the packets pushed so far, in push order: none is lost, duplicated
\* or reordered, in every interleaving of pushes and drains, the FIFO never
\* holding more than its depth.
C1_FifoExactlyOnceInOrder ==
    /\ pushed = popped \o fifo
    /\ Len(fifo) <= FifoDepth

\* The FIFO is full while the audio core renders, after an earlier packet was
\* popped; a further push by the control core has to wait.
C1_Witness ==
    /\ cons = "render"
    /\ Len(fifo) = FifoDepth
    /\ popped # <<>> /\ popped[1] # fifo[1]
    /\ ~multicore_fifo_push_blocking(fifo, Packet(ALL_NOTES_OFF_CMD, 123, 0)).ready

(***************************************************************************)
(* Claims about the envelope (SpecEnv)                                     *)
(***************************************************************************)
AttackSamples  == env.s_attackSamples.currentValue
DecaySamples   == env.s_decaySamples.currentValue
ReleaseSamples == env.s_releaseSamples.currentValue

\* C2: with constant attack, decay and release lengths A, D, R >= 1, once
\* A + D calls of getNextValue() have followed a noteOn() that arrived in Idle
\* the envelope is in Sustain with currentLevel = sustainLevel, and once R calls
\* have followed a noteOff() it is in Idle with currentLevel = 0.
C2_ReachesSustainThenIdle ==
    /\ ( /\ envh.evt = "on" /\ envh.fromState = "Idle"
         /\ AttackSamples >= 1 /\ DecaySamples >= 1
         /\ envh.calls >= AttackSamples + DecaySamples )
       => (env.state = "Sustain" /\ env.currentLevel = env.sustainLevel)
    /\ ( /\ envh.evt = "off"
         /\ ReleaseSamples >= 1
         /\ envh.calls >= ReleaseSamples )
       => (env.state = "Idle" /\ env.currentLevel = FIX15_ZERO)

\* A release from Sustain with the longest attack, decay and release has just
\* reached Idle, on exactly the R-th call after the noteOff().
C2_Witness ==
    /\ envh.evt = "off" /\ envh.fromState = "Sustain" /\ envh.fromLevel > 0
    /\ AttackSamples = MaxAttack /\ DecaySamples = MaxDecay
    /\ ReleaseSamples = MaxRelease
    /\ envh.calls = ReleaseSamples
    /\ envh.prevState = "Release"
    /\ env.state = "Idle"

Sounding(v) == EnvIsActive(v.envelope)

\* The voices before the last event are still on record, and it was a kind event.
JustHandled(kind) == vh.evt.kind = kind /\ vh.pre # <<>>

\* The lowest index in vs whose envelope is in state st (0 when there is none).
FirstInState(vs, st) ==
    IF \E i \in DOMAIN vs : vs[i].envelope.state = st
        THEN CHOOSE i \in DOMAIN vs :
                 /\ vs[i].envelope.state = st
                 /\ \A j \in DOMAIN vs : j < i => vs[j].envelope.state # st
        ELSE 0

\* No sounding voice of vs holds note n.
NoneHolds(vs, n) ==
    \A i \in DOMAIN vs : ~(vs[i].midiNote = n /\ (vs[i].isActive \/ Sounding(vs[i])))

\* C4: for every note at most one voice with that midiNote is active or still
\* sounding, whatever note-on, note-off and all-notes-off events were handled.
C4_OneVoicePerNote ==
    \A n \in Notes :
        Cardinality({i \in DOMAIN voices :
                        voices[i].midiNote = n /\ (voices[i].isActive \/ Sounding(voices[i]))}) <= 1

\* A note-on for a note whose voice was released but still sounding has
\* retriggered that voice while another voice was idle.
C4_Witness ==
    /\ JustHandled("on")
    /\ \E i \in DOMAIN voices :
           /\ vh.pre[i].midiNote = vh.evt.note
           /\ ~vh.pre[i].isActive /\ Sounding(vh.pre[i])
           /\ voices[i].isActive /\ voices[i].midiNote = vh.evt.note
    /\ \E j \in DOMAIN voices : ~Sounding(vh.pre[j])

\* C5: a note-on for a note no sounding voice holds goes to the first Idle
\* voice if there is one, otherwise to the first voice in Release if there is
\* one; the voice that receives it was in StealFade, Attack, Decay or Sustain
\* only if no voice was Idle and none was in Release.
C5_IdleThenRelease ==
    (JustHandled("on") /\ NoneHolds(vh.pre, vh.evt.note)) =>
        /\ vh.who # 0
        /\ voices[vh.who].midiNote = vh.evt.note /\ voices[vh.who].isActive
        /\ FirstInState(vh.pre, "Idle") # 0 => vh.who = FirstInState(vh.pre, "Idle")
        /\ (FirstInState(vh.pre, "Idle") = 0 /\ FirstInState(vh.pre, "Release") # 0)
               => vh.who = FirstInState(vh.pre, "Release")
        /\ vh.pre[vh.who].envelope.state \in {"StealFade", "Attack", "Decay", "Sustain"}
               => (FirstInState(vh.pre, "Idle") = 0 /\ FirstInState(vh.pre, "Release") = 0)

\* With no voice Idle, a new note has gone to a voice in Release that is not
\* voice 1, past a voice that is still held.
C5_Witness ==
    /\ JustHandled("on") /\ NoneHolds(vh.pre, vh.evt.note)
    /\ FirstInState(vh.pre, "Idle") = 0
    /\ vh.who > 1
    /\ vh.pre[vh.who].envelope.state = "Release"
    /\ voices[vh.who].midiNote = vh.evt.note /\ voices[vh.who].isActive

\* C6: when every voice is sounding, none is in Release and none holds the
\* incoming note, the voice that is stolen is one in Sustain whose level is the
\* lowest of the voices in Sustain, whenever some voice is in Sustain.
C6_StealsLowestInSustain ==
    ( /\ JustHandled("on") /\ NoneHolds(vh.pre, vh.evt.note)
      /\ \A i \in DOMAIN vh.pre : Sounding(vh.pre[i])
      /\ FirstInState(vh.pre, "Release") = 0
      /\ FirstInState(vh.pre, "Sustain") # 0 )
    => /\ vh.who # 0
       /\ vh.pre[vh.who].envelope.state = "Sustain"
       /\ \A j \in DOMAIN vh.pre :
              vh.pre[j].envelope.state = "Sustain"
                  => vh.pre[vh.who].envelope.currentLevel <= vh.pre[j].envelope.currentLevel

\* C7: a note-off for note n that follows a note-on for n, with any number of
\* frames and no other event in between, finds exactly one voice active for n
\* and leaves that voice with isActive false and its envelope in Release.
C7_OnThenOff ==
    ( /\ JustHandled("off") /\ vh.prev.kind = "on" /\ vh.prev.note = vh.evt.note )
    => /\ Cardinality({i \in DOMAIN vh.pre :
                          vh.pre[i].isActive /\ vh.pre[i].midiNote = vh.evt.note}) = 1
       /\ \A i \in DOMAIN vh.pre :
              (vh.pre[i].isActive /\ vh.pre[i].midiNote = vh.evt.note)
                  => /\ ~voices[i].isActive
                     /\ voices[i].midiNote = vh.evt.note
                     /\ voices[i].envelope.state = "Release"

\* The note-on of the pair retriggered a sounding voice, whose steal fade the
\* note-off has cut short.
C7_Witness ==
    /\ JustHandled("off") /\ vh.prev.kind = "on" /\ vh.prev.note = vh.evt.note
    /\ \E i \in DOMAIN vh.pre :
           /\ vh.pre[i].isActive /\ vh.pre[i].midiNote = vh.evt.note
           /\ vh.pre[i].envelope.state = "StealFade"
           /\ ~voices[i].isActive /\ voices[i].envelope.state = "Release"

\* The release length every voice of the bank runs with.
VoiceReleaseSamples == voices[1].envelope.s_releaseSamples.currentValue

\* C8: all-notes-off sends noteOff to every active voice (it becomes inactive,
\* in Release) and leaves every other voice as it was; with no note-on after it,
\* every envelope is Idle once release_samples frames have followed, and stays so.
C8_AllNotesOff ==
    /\ JustHandled("alloff") =>
           \A i \in DOMAIN voices :
               IF vh.pre[i].isActive
                   THEN /\ ~voices[i].isActive
                        /\ voices[i].envelope.state = "Release"
                        /\ voices[i].midiNote = vh.pre[i].midiNote
                   ELSE voices[i] = vh.pre[i]
    /\ (vh.allOff >= 0 /\ vh.allOff >= VoiceReleaseSamples) =>
           \A i \in DOMAIN voices : voices[i].envelope.state = "Idle"

\* All-notes-off has released two held voices and left alone a voice that was
\* already releasing.
C8_Witness ==
    /\ JustHandled("alloff")
    /\ Cardinality({i \in DOMAIN voices : vh.pre[i].isActive /\ ~voices[i].isActive}) >= 2
    /\ \E i \in DOMAIN voices :
           /\ ~vh.pre[i].isActive /\ vh.pre[i].envelope.state = "Release"
           /\ voices[i] = vh.pre[i]

C10_AsStated ==
    (smh.set /\ smh.calls >= sm.rampSamples) => sm.currentValue = smh.b

\* C10 amended: after setTargetValue(b) and R calls of getNextValue() the
\* current value is exactly b when R >= 1; with R = 0 one call is needed,
\* because the target is only picked up inside getNextValue().
C10_RampLandsOnTarget ==
    /\ (smh.set /\ sm.rampSamples >= 1 /\ smh.calls >= sm.rampSamples)
       => (sm.currentValue = smh.b /\ sm.targetValue = smh.b)
    /\ (smh.set /\ sm.rampSamples = 0 /\ smh.calls >= 1)
       => (sm.currentValue = smh.b /\ sm.targetValue = smh.b)

\* A ramp whose step truncated to 0 has landed on a target different from the
\* value it started from.
C10_Witness ==
    /\ smh.set /\ sm.rampSamples = MaxRamp /\ smh.calls = sm.rampSamples
    /\ smh.a # smh.b /\ sm.step = 0
    /\ sm.currentValue = smh.b

\* C11: in every state a smoother of either class reaches under reset,
\* setValue, setTargetValue and getNextValue, remainingSamples = 0 implies
\* currentValue = targetValue.
C11_RestsOnTarget ==
    /\ smh.which = "Fix15SmoothedValue" =>
           (sm.remainingSamples = 0 => sm.currentValue = sm.targetValue)
    /\ smh.which = "SmoothedValue" =>
           (sv.remainingSamples = 0 => sv.currentValue = sv.targetValue)

\* A uint32_t ramp whose last getNextValue() landed on a target that the
\* accumulated steps alone would have missed.
C11_Witness ==
    /\ smh.which = "SmoothedValue"
    /\ smh.op = "getNextValue"
    /\ smh.before.remainingSamples = 1
    /\ sv.remainingSamples = 0
    /\ U32Add(smh.before.currentValue, smh.before.step) # sv.targetValue
    /\ sv.currentValue = sv.targetValue

\* C12: the flag is never visible before the value.  Whenever hasNewTarget
\* is set, pendingTarget already holds the argument of the call that set it
\* or of a later call; and the value the audio side has read after observing
\* the flag is the argument of a setTargetValue() call, never an older one
\* than the call whose flag it observed and never the constructor's value.
C12_FlagNeverBeforeValue ==
    /\ sm.hasNewTarget => hs.pendingBy >= hs.flagBy /\ hs.flagBy >= 1
    /\ hs.apc \in {"dmb", "clear"} =>
           /\ hs.readBy >= 1
           /\ hs.readBy >= hs.sawFlagOf
           /\ hs.newTarget = hs.args[hs.readBy]

\* The audio side saw the flag of the first call and read the value of the
\* second, written between its test and its read, and a different value.
C12_Witness ==
    /\ hs.apc = "clear"
    /\ hs.sawFlagOf = 1
    /\ hs.readBy = 2
    /\ hs.args[1] # hs.args[2]
    /\ hs.newTarget = hs.args[2]

F32Abs(a) == [a EXCEPT !.neg = FALSE]

\* The unit in the last place of x: the gap from |x| to the next float above
\* it (2^-149 for zero).
F32Ulp(x) == IF x.m = 0 THEN [neg |-> FALSE, m |-> 2^23, e |-> -172]
             ELSE [neg |-> FALSE, m |-> 2^23, e |-> x.e - 23]

\* FLT_EPSILON, 2^-23: the unit in the last place of 1.0f
F32Epsilon == F32Ulp(F32One)

\* p.setNormalizedValue(clamp(v, 0, 1)) followed by p.getNormalizedValue()
NormRoundTrip(p, v) == ParamGetNormalizedValue(ParamSetNormalizedValue(p, ClampNorm(v)))

\* C14 as stated: after setNormalizedValue(clamp(v, 0, 1)), getNormalizedValue()
\* is within 1 ULP of clamp(v, 0, 1).
C14_AsStated ==
    params.op = "setNormalizedValue" =>
        F32LessEq(F32Abs(F32Sub(ParamGetNormalizedValue(params.p), ClampNorm(params.arg))),
                  F32Ulp(ClampNorm(params.arg)))

\* C14, amended: after setNormalizedValue(clamp(v, 0, 1)), getNormalizedValue()
\* differs from clamp(v, 0, 1) by at most 2^-23, and by nothing when the range
\* is [0, 1]; and the mapping from v to the value returned never decreases.
C14_RoundTripWithinEpsilon ==
    params.op = "setNormalizedValue" =>
        LET c == ClampNorm(params.arg)
            r == ParamGetNormalizedValue(params.p)
        IN  /\ F32LessEq(F32Abs(F32Sub(r, c)), F32Epsilon)
            /\ (params.p.minimum = F32Zero /\ params.p.maximum = F32One) => r = c
            /\ \A w \in NormValues :
                   F32LessEq(w, params.arg) => F32LessEq(NormRoundTrip(params.p, w), r)

\* A round trip that returns a value a full 2^-23 away from its argument.
C14_Witness ==
    /\ params.op = "setNormalizedValue"
    /\ F32Less(F32Zero, params.arg) /\ F32Less(params.arg, F32One)
    /\ F32Abs(F32Sub(ParamGetNormalizedValue(params.p), params.arg)) = F32Epsilon

\* C17: the consumer's unpacking recovers exactly the command (0x80, 0x90
\* or 0xB0, channel nibble clear), data1 and data2 the producer packed, for
\* all byte values, and the lowest byte of the word is 0.
C17_UnpackRecovers ==
    popped # <<>> =>
        /\ popped[1] = pushed[1]
        /\ popped[1][1] \in {NOTE_OFF_CMD, NOTE_ON_CMD, ALL_NOTES_OFF_CMD}
        /\ popped[1][1] % 16 = 0
        /\ popped[2] = 0

\* A note-on whose three bytes all have their top bit set was unpacked.
C17_Witness ==
    /\ popped # <<>>
    /\ pushed[1] = <<NOTE_ON_CMD, 255, 128>>
    /\ popped[1] = <<NOTE_ON_CMD, 255, 128>>

\* The packets the last update() pushed: what the FIFO holds beyond what it
\* held before the call.
UpdPushed == SubSeq(fifo, Len(upd.fifo) + 1, Len(fifo))

\* The last update() pushed nothing, changed no parameter and printed nothing.
UpdNoEffect == fifo = upd.fifo /\ params = upd.params /\ upd.lines = <<>>

\* C15: every three-byte message has exactly one outcome.  0x9n with
\* data2 > 0 pushes one note-on packet; 0x8n, and 0x9n with data2 = 0, push
\* one note-off packet; 0xBn with data1 = 123 pushes one all-notes-off packet
\* and changes no parameter; any other 0xBn pushes no packet.  The packets
\* already in the FIFO stay as they are.
C15_OneOutcomePerMessage ==
    UpdMessage =>
        /\ SubSeq(fifo, 1, Len(upd.fifo)) = upd.fifo
        /\ (UpdCommand = 144 /\ upd.data2 > 0) =>
               /\ UpdPushed = <<Packet(NOTE_ON_CMD, upd.data1, upd.data2)>>
               /\ PacketCommand(UpdPushed[1]) = 144
               /\ params = upd.params
        /\ (UpdCommand = 128 \/ (UpdCommand = 144 /\ upd.data2 = 0)) =>
               /\ UpdPushed = <<Packet(NOTE_OFF_CMD, upd.data1, upd.data2)>>
               /\ PacketCommand(UpdPushed[1]) = 128
               /\ params = upd.params
        /\ (UpdCommand = 176 /\ upd.data1 = 123) =>
               /\ UpdPushed = <<Packet(ALL_NOTES_OFF_CMD, 123, 0)>>
               /\ PacketCommand(UpdPushed[1]) = 176 /\ PacketData1(UpdPushed[1]) = 123
               /\ params = upd.params
        /\ (UpdCommand = 176 /\ upd.data1 # 123) => UpdPushed = <<>>

\* A note-on on channel 1 pushed a packet with command 0x90 behind a packet
\* that was in the FIFO already.
C15_Witness ==
    /\ UpdMessage /\ upd.c = 145 /\ upd.data2 = 100
    /\ upd.fifo # <<>>
    /\ fifo = Append(upd.fifo, Packet(NOTE_ON_CMD, 60, 100))

\* min + (v / 127) * (max - min) in float arithmetic, for the byte v; a
\* quotient above 1 counts as 1 and a sum rounded above max as max.
CcValue(p, v) ==
    LET norm == IF v <= CC_FULL_SCALE
                    THEN F32Div(F32FromInt(v), F32FromInt(CC_FULL_SCALE))
                    ELSE F32One
        x == F32Add(p.minimum, F32Mul(norm, F32Sub(p.maximum, p.minimum)))
    IN  IF F32Less(p.maximum, x) THEN p.maximum ELSE x

\* C16: a control change 0xBn cc v with cc # 123 sets the value of the
\* parameter whose CC number is cc to min + (v / 127) * (max - min) and
\* leaves every other parameter as it was; when no parameter has that CC
\* number nothing changes; nothing is pushed to the FIFO.
C16_ControlChangeSetsOneParameter ==
    (UpdMessage /\ UpdCommand = 176 /\ upd.data1 # 123) =>
        /\ fifo = upd.fifo
        /\ DOMAIN params = DOMAIN upd.params
        /\ \A i \in DOMAIN params :
               IF params[i].ccNumber = upd.data1
                   THEN params[i] = [upd.params[i] EXCEPT
                                         !.value = CcValue(upd.params[i], upd.data2)]
                   ELSE params[i] = upd.params[i]
        /\ (\A i \in DOMAIN params : params[i].ccNumber # upd.data1) => params = upd.params

\* CC 74 with value 64 moved attack, alone, from the value an earlier control
\* change had given it, and STATE:74:0.504 was printed.
C16_Witness ==
    /\ UpdMessage /\ upd.c = 178 /\ upd.data1 = 74 /\ upd.data2 = 64
    /\ upd.params[1].value # initialize_parameters[1].value
    /\ params[1].value # upd.params[1].value
    /\ \A i \in 2..Len(params) : params[i] = upd.params[i]
    /\ upd.lines = <<<<"STATE", 74, 504>>>>

\* C18: a message whose status byte is not 0x8n, 0x9n or 0xBn is dropped
\* silently.  It pushes no packet, changes no parameter, prints nothing and
\* leaves the line under assembly as it was, so that the decoder goes on as
\* if the message had not come.
C18_OtherStatusDropped ==
    (UpdMessage /\ UpdCommand \notin {128, 144, 176}) =>
        /\ UpdNoEffect
        /\ lis = upd.lis
        /\ \A c \in LineEnds \cup {120} \cup StatusBytes :
               Update(lis, params, c, 60, 100) = Update(upd.lis, upd.params, c, 60, 100)

\* A pitch-bend message came in the middle of a line, with a packet waiting
\* in the FIFO and a parameter away from its default.
C18_Witness ==
    /\ UpdMessage /\ upd.c = 224
    /\ upd.lis.ascii_pos > 0 /\ lis = upd.lis
    /\ fifo # <<>> /\ fifo = upd.fifo

\* The last update() dispatched a line to handleAsciiCommand.
UpdDispatched == upd.c < 128 /\ upd.c # PICO_ERROR_TIMEOUT /\ upd.lines # <<>>

\* C19: 0 <= ascii_pos <= 63 always; a text byte that finds 63 bytes in the
\* line is discarded; a line is dispatched only by '\n' or '\r' and only when
\* it is not empty, and ascii_pos is 0 after the dispatch; a MIDI message in
\* the middle of a line leaves the bytes assembled so far as they were.
C19_LineAssembler ==
    /\ lis.ascii_pos \in 0..(ASCII_BUFFER_SIZE - 1)
    /\ Len(lis.ascii_buffer) = lis.ascii_pos
    /\ (upd.c \in 0..127 /\ upd.c \notin LineEnds) =>
           /\ upd.lines = <<>>
           /\ IF upd.lis.ascii_pos < 63
                  THEN lis.ascii_buffer = Append(upd.lis.ascii_buffer, upd.c)
                  ELSE lis = upd.lis
    /\ UpdDispatched => (upd.c \in LineEnds /\ upd.lis.ascii_pos > 0)
    /\ upd.c \in LineEnds =>
           IF upd.lis.ascii_pos > 0
               THEN /\ lis.ascii_pos = 0
                    /\ upd.lines =
                           <<<<"LOG:Received ASCII Command: ", CString(upd.lis.ascii_buffer)>>>>
               ELSE lis = upd.lis /\ upd.lines = <<>>
    /\ upd.c >= 128 => lis = upd.lis

\* A text byte found 63 bytes in the line and was discarded.
C19_Witness ==
    /\ upd.c = 120
    /\ upd.lis.ascii_pos = 63
    /\ lis.ascii_pos = 63
    /\ lis.ascii_buffer = upd.lis.ascii_buffer

C21_ClearThenEachModuleInOrder ==
    blk.n > 0 =>
        /\ [i \in DOMAIN blk.calls |-> blk.calls[i].module] = blk.before
        /\ \A i \in DOMAIN blk.calls :
               blk.calls[i].found =
                   IF i = 1 THEN [k \in 1..EngineFrames |-> 0]
                   ELSE ModuleProcess(blk.calls[i - 1].module, blk.calls[i - 1].found)
        /\ blk.buffer = IF blk.calls = <<>> THEN [k \in 1..EngineFrames |-> 0]
                        ELSE ModuleProcess(blk.calls[Len(blk.calls)].module,
                                           blk.calls[Len(blk.calls)].found)
        /\ blk.after = blk.before

\* A block processed by three different modules registered out of numeric
\* order, handed a buffer that held old samples.
C21_Witness ==
    /\ blk.n = MaxBlocks
    /\ blk.before = <<3, 1, 2>>
    /\ \A i \in 1..EngineFrames : blk.given[i] # 0
    /\ Len(blk.calls) = 3


(***************************************************************************)
(* Claims about the output drivers (SpecI2s, SpecPwm)                      *)
(***************************************************************************)
\* Every interrupt so far found the main loop spinning in its wait: every fill
\* was complete, and the loop ready for the next signal, before the next
\* buffer-complete interrupt.
FillsInTime == ~outh.late

\* The blocks handed to the DMA so far are 1, 2, 3, ... in this order, each
\* once, and every block produced so far has either been handed to the DMA or
\* is still waiting in a hardware buffer or in the workspace.
BlocksOnceInOrder ==
    /\ outh.handed = [i \in 1..Len(outh.handed) |-> i]
    /\ \A b \in 1..out.o.blocks :
           \/ \E i \in DOMAIN outh.handed : outh.handed[i] = b
           \/ \E i \in 0..1 : out.o.audio_buffers[i] = b
           \/ out.pc \in {"select", "copy"} /\ out.o.workspace = b

C23_PwmBlocksOnceInOrder ==
    (out.driver = "Pwm" /\ out.pc # "start" /\ FillsInTime) => BlocksOnceInOrder

\* C24: in both drivers, while every fill completes before the next
\* buffer-complete interrupt, a fill of the main loop never writes the buffer
\* the DMA is transferring, the buffer it writes is the one whose transfer
\* completed last, and between two fills there is at least one interrupt.
C24_WritesTheBufferJustPlayed ==
    FillsInTime =>
        \A i \in DOMAIN outh.writes :
            /\ outh.writes[i].buffer # outh.writes[i].dma
            /\ outh.writes[i].buffer = outh.writes[i].finished
            /\ outh.writes[i].irqs > (IF i = 1 THEN 0 ELSE outh.writes[i - 1].irqs)


(***************************************************************************)
(* Claims about the ladder filter (SpecFilter)                             *)
(***************************************************************************)
\* C25: with |input| <= 1.0 and cutoff and resonance in [0, 1], after every
\* sample of either filter |stage4| <= 8.0 and |output| <= 16.0, and every
\* value computed on the way fits a 32-bit integer.
C25_LadderStaysBounded ==
    /\ filt.f.stage4 >= -STAGE4_LIMIT /\ filt.f.stage4 <= STAGE4_LIMIT
    /\ filt.output >= -OUTPUT_LIMIT /\ filt.output <= OUTPUT_LIMIT
    /\ \A v \in filt.terms \cup {filt.f.stage1, filt.f.stage2, filt.f.stage3} :
           v >= INT32_MIN /\ v <= INT32_MAX

\* The sample of FilterModule on which stage4 would leave [-8, 8] and the
\* makeup gain would leave [-16, 16]: both limits are in force.
C25_Witness ==
    /\ filt.which = "FilterModule"
    /\ filt.driven = Len(ResonantDrive)
    /\ \E v \in filt.terms : v > STAGE4_LIMIT /\ v = 279191
    /\ filt.f = [stage1 |-> 488551, stage2 |-> 425521, stage3 |-> 351585,
                 stage4 |-> STAGE4_LIMIT]
    /\ filt.output = OUTPUT_LIMIT


(***************************************************************************)
(* Claims about the envelope with changing parameters (SpecEnvSet)         *)
(***************************************************************************)
\* The last operation was noteOn, noteOff or getNextValue and changed the state.
EnvStateChanged ==
    /\ envh.op \in {"noteOn", "noteOff", "getNextValue"}
    /\ env.state # envh.before.state

\* C26: right after any change of the envelope state, by noteOn, by
\* noteOff or by a phase completing inside getNextValue, Decay -> Sustain
\* included, sampleCounter is 0.
C26_CounterResetOnEveryTransition == EnvStateChanged => env.sampleCounter = 0

\* C27: in every state reached by noteOn, noteOff, the parameter setters and
\* getNextValue, state = Idle implies currentLevel = 0.
C27_IdleMeansSilent == env.state = "Idle" => env.currentLevel = FIX15_ZERO

\* A release from a level above 0 has just ended in Idle, after a parameter
\* was changed on the way.
C27_Witness ==
    /\ envh.op = "getNextValue"
    /\ envh.before.state = "Release" /\ envh.before.currentLevel > FIX15_ZERO
    /\ env.state = "Idle"
    /\ envh.n = EnvSetEvents
    /\ env.s_releaseSamples.currentValue # env.s_attackSamples.currentValue

\* C28: noteOff() in a state other than Idle enters Release, remembers the
\* current level in releaseStartLevel, resets the counter and changes nothing
\* else, the current level included; noteOff() in Idle changes nothing at all.
C28_NoteOffFrame ==
    envh.op = "noteOff" =>
        IF envh.before.state # "Idle"
            THEN env = [envh.before EXCEPT !.state = "Release",
                                           !.releaseStartLevel = envh.before.currentLevel,
                                           !.sampleCounter = 0]
            ELSE env = envh.before

\* noteOff() during a steal fade from full level, with a sustain level that
\* differs from it.
C28_Witness ==
    /\ envh.op = "noteOff"
    /\ envh.before.state = "StealFade"
    /\ envh.before.currentLevel = FIX15_ONE
    /\ envh.before.sustainLevel # FIX15_ONE
    /\ env.state = "Release"

\* The sample count getNextValue() uses for the phase `state'.
PhaseSamples(e, state) ==
    CASE state = "Attack"  -> e.s_attackSamples.currentValue
      [] state = "Decay"   -> e.s_decaySamples.currentValue
      [] state = "Release" -> e.s_releaseSamples.currentValue

\* C29: when getNextValue() in Attack, Decay or Release finds the phase's
\* sample count shorter than on the call before, and so short that the
\* progress computed from the sample counter would pass ONE, the level stays
\* what it was and the phase goes on.
C29_LevelKeptWhenTimeShortened ==
    ( /\ envh.op = "getNextValue"
      /\ envh.before.state \in {"Attack", "Decay", "Release"}
      /\ PhaseSamples(env, envh.before.state) # 0
      /\ U32Less(PhaseSamples(env, envh.before.state),
                 PhaseSamples(envh.before, envh.before.state))
      /\ U32Less(PhaseSamples(env, envh.before.state), envh.before.sampleCounter) )
    => /\ env.currentLevel = envh.before.currentLevel
       /\ env.state = envh.before.state


RECURSIVE U32Back(_, _, _)
U32Back(v, step, k) == IF k = 0 THEN v ELSE U32Back(U32Sub(v, step), step, k - 1)

\* The value a ramping SmoothedValue<uint32_t> had when its ramp began.
RampStart(s) == U32Back(s.currentValue, s.step, s.rampSamples - s.remainingSamples)

\* x lies between a and b, as unsigned numbers
U32Between(x, a, b) ==
    \/ ~U32Less(x, a) /\ ~U32Less(b, x)
    \/ ~U32Less(x, b) /\ ~U32Less(a, x)

SampleCountSmoothers == {"s_attackSamples", "s_decaySamples", "s_releaseSamples"}

\* C37: while a sample count is ramping, the count getNextValue() takes from
\* its smoother lies between the count the ramp began at and the new count,
\* for increases and for decreases alike.
C37_SampleCountStaysBetween ==
    envh.op = "getNextValue" =>
        \A name \in SampleCountSmoothers :
            envh.before[name].remainingSamples > 0 =>
                U32Between(env[name].currentValue,
                           RampStart(envh.before[name]),
                           envh.before[name].targetValue)

(***************************************************************************)
(* Claims about the master gain (SpecGain)                                 *)
(***************************************************************************)
\* The size of the step a smoother with a ramp of GainRampSamples samples
\* takes per sample on its way from `from' to `to'.
SmootherStep(from, to) ==
    LET step == Fix15StartRamp(Fix15SmoothedValue(GainRampSamples, from), to).step
    IN  IF step < 0 THEN -step ELSE step

\* C30: the gains applied to two consecutive output samples, within a block
\* and from the last sample of one block to the first of the next, never
\* differ by more than one step of a smoother that ramps from the one gain to
\* the other.
C30_NoGainJump ==
    LET gains == gainh.before \o gainh.applied
    IN  gainh.blocks >= 1 =>
            \A i \in 1..(Len(gains) - 1) :
                LET d == gains[i + 1] - gains[i]
                IN  (IF d < 0 THEN -d ELSE d) <= SmootherStep(gains[i], gains[i + 1])


(***************************************************************************)
(* Claims about the I2S sample conversion (SpecWire)                       *)
(***************************************************************************)
Sign(x) == IF x > 0 THEN 1 ELSE IF x < 0 THEN -1 ELSE 0

\* The wire sample `s16' is the saturated image of the fix15 sample `x'.
Saturated(x, s16) ==
    /\ x >= FIX15_ONE => s16 = 32767
    /\ x <= -FIX15_ONE => s16 = -32768
    /\ Sign(s16) = Sign(x)

\* C31: after the conversion both wire samples of the word are saturated
\* images of the fix15 samples: +1.0 and above give the most positive, -1.0
\* and below the most negative 16-bit sample, and the sign is kept.
C31_SaturatesNeverWraps ==
    wire.converted =>
        /\ Saturated(wire.sample_l, WordLeft(wire.word))
        /\ Saturated(wire.sample_r, WordRight(wire.word))


(***************************************************************************)
(* Claims about the two cores (SpecCores)                                  *)
(***************************************************************************)
\* What the claim calls voice and envelope state.
VoiceState(v) == <<v.midiNote, v.isActive, v.envelope.state, v.envelope.currentLevel>>

\* C32: a step in which the control core handles a message leaves every
\* voice's note, active flag, envelope state and level as they were; a step
\* of the audio core's block processing leaves every parameter value as it
\* was; and a voice's note or active flag changes only in a step that pops a
\* packet from the FIFO and dispatches it.
C32_Ownership ==
    [][ /\ upd'.n # upd.n =>
              \A i \in DOMAIN voices : VoiceState(voices'[i]) = VoiceState(voices[i])
        /\ (cons' # cons \/ popped' # popped) =>
              \A i \in DOMAIN params : params'[i].value = params[i].value
        /\ (\E i \in DOMAIN voices :
               \/ voices'[i].midiNote # voices[i].midiNote
               \/ voices'[i].isActive # voices[i].isActive) =>
              /\ fifo # <<>>
              /\ fifo' = Tail(fifo)
              /\ popped' = Append(popped, Head(fifo))
              /\ voices' = DispatchPacket(voices, Head(fifo)) ]_vars

\* The control core has changed a parameter and sent a note on; the audio
\* core has popped it, a voice sounds, and a block has been rendered with
\* the changed master volume.
C32_Witness ==
    /\ upd.n = MaxCoreMsgs
    /\ popped = <<Packet(NOTE_ON_CMD, 60, 100)>>
    /\ \E i \in DOMAIN voices : voices[i].isActive /\ voices[i].envelope.currentLevel > 0
    /\ params # initialize_parameters
    /\ gain.applied = 16384 + 129


(***************************************************************************)
(* Claims about the progress of the handshake (SpecHandshakeLive)          *)
(***************************************************************************)
\* The control core has finished its last setTargetValue() call.
HsControlDone == hs.cpc = 1 /\ Len(hs.args) = HsCalls

\* C33: once the control core has finished its last setTargetValue(v) call,
\* the audio core's getNextValue() calls eventually bring targetValue and
\* currentValue to v.
C33_NoTargetLost ==
    HsControlDone ~> ( /\ HsControlDone
                       /\ sm.targetValue = hs.args[HsCalls]
                       /\ sm.currentValue = hs.args[HsCalls] )


(***************************************************************************)
(* Claims about the active flag of the voices (SpecVoice)                  *)
(***************************************************************************)
\* C34: a voice is active exactly when its envelope is in StealFade, Attack,
\* Decay or Sustain, and inactive exactly when its envelope is Idle or in
\* Release.
C34_ActiveIffKeyPhase ==
    \A i \in DOMAIN voices :
        voices[i].isActive <=>
            voices[i].envelope.state \in {"StealFade", "Attack", "Decay", "Sustain"}

\* One voice is active in a steal fade while another, released, still sounds
\* and a third is idle.
C34_Witness ==
    /\ \E i \in DOMAIN voices :
           voices[i].isActive /\ voices[i].envelope.state = "StealFade"
    /\ \E i \in DOMAIN voices :
           ~voices[i].isActive /\ voices[i].envelope.state = "Release"
    /\ \E i \in DOMAIN voices :
           ~voices[i].isActive /\ voices[i].envelope.state = "Idle"


(***************************************************************************)
(* Claims about the voice bank block by block (SpecBank, SpecBankLive)     *)
(***************************************************************************)
\* C36: after handleNoteOn every voice other than the one that received the
\* note has the envelope it had before the call: state, level, sample
\* counter and smoothers.
C36_NoteOnChangesOneVoice ==
    (vh.evt.kind = "on" /\ vh.pre # <<>>) =>
        \A i \in DOMAIN voices :
            i # vh.who => voices[i].envelope = vh.pre[i].envelope


\* The sustain parameter has had its last change.
SustainStable == upd.n = MaxSustainCcs

\* Every sounding voice's smoothed sustain level is the fix15 value of the parameter.
SustainSettled ==
    \A i \in DOMAIN voices :
        EnvIsActive(voices[i].envelope) =>
            voices[i].envelope.s_sustainLevel.currentValue
                = SustainLevelOf(StoreValue(params, "sustain"))

\* C38: once the sustain parameter has stopped changing, the smoothed sustain
\* level of every sounding voice eventually equals exactly the fix15 value of
\* the parameter, with the target re-sent at the start of every block.
C38_SustainLevelSettles == SustainStable ~> SustainSettled


(***************************************************************************)
(* Claims about the phase accumulator (SpecPhase)                          *)
(***************************************************************************)
\* C39: with 0 <= increment <= wrapLimit the phase stays in [0, wrapLimit),
\* next() returns the phase it found (0 on the first call after a reset),
\* and the saw sample lies in [-FIX15_ONE, FIX15_ONE).
C39_PhaseInRange ==
    (0 <= osc.increment /\ osc.increment <= osc.wrapLimit) =>
        /\ 0 <= osc.phase /\ osc.phase < osc.wrapLimit
        /\ osc.op = "next" =>
               /\ osc.returned = osc.before
               /\ osc.calls = 1 => osc.returned = 0
               /\ osc.wrapLimit = FIX15_ONE =>
                      /\ osc.sample = (2 * osc.before) - FIX15_ONE
                      /\ -FIX15_ONE <= osc.sample /\ osc.sample < FIX15_ONE

\* A saw whose phase has just wrapped, with an increment inside the limit.
C39_Witness ==
    /\ osc.wrapLimit = FIX15_ONE /\ osc.op = "next"
    /\ 0 < osc.increment /\ osc.increment < osc.wrapLimit
    /\ osc.phase < osc.before
    /\ osc.sample > 0


====
